---- MODULE Spec2Model ----
(***************************************************************************)
(* Subscription lifecycle and credit-allocation reconciliation engine:     *)
(* the Stripe webhook endpoint, the webhook-event ledger, the subscription *)
(* table and the StripeService handlers, at the granularity of their await *)
(* points, against a small model of the billing provider.                  *)
(***************************************************************************)
EXTENDS Integers, Sequences, FiniteSets, Bags, TLC

\* ---------------------------------------------------------------- bounds
MaxEvents == 2      \* events the provider emits in one behaviour
NDeliveries == 2    \* webhook requests that can be in flight at once
MaxTime == 2        \* provider clock values (seconds) 1..MaxTime
MaxUsed == 1        \* highest creditsUsed the metering drives a record to
RaceEvents == 1     \* events emitted when webhook requests race
SyncEvents == 3     \* events emitted (and not delivered) when the sync runs
ReprocessEvents == 1 \* events emitted when deliveries and reprocess calls mix
CreditEvents == 1   \* events emitted over rows with consumed credits
CheckoutEvents == 1 \* subscriptions the provider creates while a checkout completes

\* ------------------------------------------------------- values and sets
Null == "null"              \* SQL NULL / JS null in a text column
Undef == "undefined"        \* JS undefined: the key is dropped from the JSON body
NullN == -1                 \* NULL in a numeric or timestamp column
UndefN == -2                \* JS undefined in a numeric or timestamp column

Users == {"u1"}
Customers == {"cus_1", "cus_2", "cus_3"}
SubIds == {"sub_1", "sub_2"}
Times == 1..MaxTime
Deliveries == 1..NDeliveries

\* users table: the e-mail of each user
UserEmail == [u \in Users |-> "u1@example.com"]

\* provider customers: cus_1 was created for u1 at checkout, cus_2 is a second
\* customer carrying u1's e-mail, cus_3 has an e-mail no user has
CustomerEmail ==
  [c \in Customers |-> IF c = "cus_3" THEN "nobody@example.com" ELSE "u1@example.com"]

PRICE_STARTUP_MONTHLY == "price_startup_monthly"
PRICE_STARTUP_YEARLY == "price_startup_yearly"
PRICE_PRO_MONTHLY == "price_pro_monthly"
PRICE_PRO_YEARLY == "price_pro_yearly"
PRICE_ENTERPRISE_MONTHLY == "price_enterprise_monthly"
PRICE_ENTERPRISE_YEARLY == "price_enterprise_yearly"

\* creditsUsed values the metering has driven a record to: none, more than the
\* FREE allocation, more than the STARTUP allocation
UsedLevels == {0, 11, 501}

\* the prices the provider sells in this model
Prices == {PRICE_STARTUP_MONTHLY, PRICE_PRO_MONTHLY, PRICE_ENTERPRISE_MONTHLY}

ProviderStatuses ==
  {"active", "past_due", "canceled", "unpaid", "incomplete", "incomplete_expired", "trialing"}

\* length of a billing period at the provider, in seconds
PeriodLen == 1

\* ------------------------------------------------------- pure functions
getPlanFromPriceId(priceId) ==
  CASE priceId = PRICE_STARTUP_MONTHLY -> "STARTUP"
    [] priceId = PRICE_STARTUP_YEARLY -> "STARTUP"
    [] priceId = PRICE_PRO_MONTHLY -> "PRO"
    [] priceId = PRICE_PRO_YEARLY -> "PRO"
    [] priceId = PRICE_ENTERPRISE_MONTHLY -> "ENTERPRISE"
    [] priceId = PRICE_ENTERPRISE_YEARLY -> "ENTERPRISE"
    [] OTHER -> "FREE"

\* String.prototype.toUpperCase on the plan names that occur
toUpperCase(s) ==
  CASE s = "free" -> "FREE"
    [] s = "Free" -> "FREE"
    [] s = "basic" -> "BASIC"
    [] s = "startup" -> "STARTUP"
    [] s = "Startup" -> "STARTUP"
    [] s = "pro" -> "PRO"
    [] s = "Pro" -> "PRO"
    [] s = "enterprise" -> "ENTERPRISE"
    [] s = "Enterprise" -> "ENTERPRISE"
    [] OTHER -> s

\* credits per plan; NullN is the "unlimited" null
getPlanCredits(planName) ==
  LET plan == toUpperCase(planName) IN
  IF plan = "BASIC" \/ plan = "STARTUP" THEN 500
  ELSE IF plan = "PRO" THEN 2000
  ELSE IF plan = "ENTERPRISE" THEN NullN
  ELSE IF plan = "FREE" THEN 10
  ELSE 10

\* a plan name spelled out, one character per element, for the calls that
\* pass getPlanCredits an arbitrary value
LowerCaseLetters ==
  <<"a", "b", "c", "d", "e", "f", "g", "h", "i", "j", "k", "l", "m",
    "n", "o", "p", "q", "r", "s", "t", "u", "v", "w", "x", "y", "z">>

UpperCaseLetters ==
  <<"A", "B", "C", "D", "E", "F", "G", "H", "I", "J", "K", "L", "M",
    "N", "O", "P", "Q", "R", "S", "T", "U", "V", "W", "X", "Y", "Z">>

\* toUpperCase on one character: a lower-case letter gives its capital, every
\* other character stays
upperChar(c) ==
  IF \E i \in DOMAIN LowerCaseLetters : LowerCaseLetters[i] = c
  THEN UpperCaseLetters[CHOOSE i \in DOMAIN LowerCaseLetters : LowerCaseLetters[i] = c]
  ELSE c

lowerChar(c) ==
  IF \E i \in DOMAIN UpperCaseLetters : UpperCaseLetters[i] = c
  THEN LowerCaseLetters[CHOOSE i \in DOMAIN UpperCaseLetters : UpperCaseLetters[i] = c]
  ELSE c

\* String.prototype.toUpperCase, character by character
toUpperCaseText(text) == [i \in 1..Len(text) |-> upperChar(text[i])]

\* the plan name a spelled-out text is strictly equal (===) to, "" when it is
\* none of the names getPlanCredits compares with
PlanNamed(text) ==
  CASE text = <<"B", "A", "S", "I", "C">> -> "BASIC"
    [] text = <<"S", "T", "A", "R", "T", "U", "P">> -> "STARTUP"
    [] text = <<"P", "R", "O">> -> "PRO"
    [] text = <<"E", "N", "T", "E", "R", "P", "R", "I", "S", "E">> -> "ENTERPRISE"
    [] text = <<"F", "R", "E", "E">> -> "FREE"
    [] OTHER -> ""

\* a JavaScript value passed as planName: null, or a string
JsNull == [isNull |-> TRUE, text |-> << >>]
JsString(text) == [isNull |-> FALSE, text |-> text]

NoCall == [pc |-> "idle", planName |-> JsNull, plan |-> << >>, threw |-> FALSE, result |-> 0]

\* statusMap[status] || 'INACTIVE'
statusMap(s) ==
  CASE s = "active" -> "ACTIVE"
    [] s = "past_due" -> "PAST_DUE"
    [] s = "canceled" -> "CANCELED"
    [] s = "unpaid" -> "UNPAID"
    [] s = "incomplete" -> "INACTIVE"
    [] s = "incomplete_expired" -> "INACTIVE"
    [] s = "trialing" -> "ACTIVE"
    [] OTHER -> "INACTIVE"

\* new Date(sec * 1000).toISOString(): a timestamp column holds the instant
\* with millisecond precision
toISOString(sec) == sec * 1000

\* new Date(column).getTime(): milliseconds of the stored instant
getTime(iso) == iso

\* x ? new Date(x * 1000).toISOString() : undefined
isoOrUndefined(sec) == IF sec # 0 THEN toISOString(sec) ELSE UndefN

\* --------------------------------------------------- subscriptions table
IntFields ==
  {"current_period_start", "current_period_end", "credits_total", "credits_used",
   "credits_reset_at"}

\* the absent row
NoRow == [present |-> FALSE]

\* SubscriptionModel.create: the columns not given take the table's defaults
NewRow(customerId, subscriptionId, status) ==
  [present |-> TRUE,
   stripe_customer_id |-> customerId,
   stripe_subscription_id |-> subscriptionId,
   status |-> status,
   plan_name |-> Null,
   price_id |-> Null,
   current_period_start |-> NullN,
   current_period_end |-> NullN,
   credits_total |-> NullN,
   credits_used |-> 0,
   credits_reset_at |-> NullN]

\* an update body with every key undefined
NoUpdate ==
  [stripe_customer_id |-> Undef,
   stripe_subscription_id |-> Undef,
   status |-> Undef,
   plan_name |-> Undef,
   price_id |-> Undef,
   current_period_start |-> UndefN,
   current_period_end |-> UndefN,
   credits_total |-> UndefN,
   credits_used |-> UndefN,
   credits_reset_at |-> UndefN]

\* .update(body): JSON.stringify drops the keys whose value is undefined, so
\* only the other columns are written
ApplyUpdate(row, upd) ==
  [f \in DOMAIN row |->
     IF f = "present" THEN row[f]
     ELSE IF f \in IntFields
          THEN (IF upd[f] = UndefN THEN row[f] ELSE upd[f])
          ELSE (IF upd[f] = Undef THEN row[f] ELSE upd[f])]

\* ------------------------------------------------------------------ state
VARIABLES
  subs,       \* subscriptions table: user id -> row
  ledger,     \* webhook_events table: a bag of rows
  prov,       \* the provider's subscriptions: subscription id -> state
  emitted,    \* the events the provider has emitted; the event id is the index
  dl,         \* webhook requests in flight: position, event, reads, response
  sy,         \* the sync request in flight: position, user, customer, listed subscriptions
  runs,       \* history: per event id, type-handler invocations (capped at 2)
  applied,    \* history: per event id, handler updates that hit a row (capped at 2)
  ua,         \* the user action in flight: position, operation, reads, result
  call,       \* a call of getPlanCredits: position, argument, upper-cased name, result
  rp,         \* the reprocess request in flight: position, event id, reads, response
  co          \* the checkout-completion request in flight: position, user, session, reads, response

vars == <<subs, ledger, prov, emitted, dl, sy, runs, applied, ua, call, rp, co>>

EventIds == 1..MaxEvents

NoProvSub == [exists |-> FALSE]

\* a Stripe.Subscription as the provider holds it
ProvSub(c, st, p, t, cape) ==
  [exists |-> TRUE, customer |-> c, status |-> st, price |-> p,
   current_period_start |-> t, cancel_at_period_end |-> cape]

\* the payload of an event: a snapshot of the subscription when it was emitted
Event(type, s, ps, shape) ==
  [type |-> type, id |-> s, customer |-> ps.customer, status |-> ps.status,
   price |-> ps.price, current_period_start |-> ps.current_period_start,
   shape |-> shape]

\* an event that is not about a subscription
OtherEvent(type) ==
  [type |-> type, id |-> Null, customer |-> Null, status |-> Null,
   price |-> Null, current_period_start |-> 0, shape |-> "legacy"]

current_period_end(ev) == ev.current_period_start + PeriodLen

NoRead == [found |-> FALSE, user_id |-> Null, current_period_start |-> NullN, plan_name |-> Null]

NoResponse == [code |-> 0, received |-> FALSE, processed |-> "absent"]

Response(code, received, processed) ==
  [code |-> code, received |-> received, processed |-> processed]

Idle == [pc |-> "idle", ev |-> 0, ex |-> NoRead, resp |-> NoResponse]

\* the body of the reprocess endpoint's answer: success, and data.processed
ReprocessResponse(code, success, processed) ==
  [code |-> code, success |-> success, processed |-> processed]

NoReprocess ==
  [pc |-> "idle", ev |-> 0, ex |-> NoRead, resp |-> ReprocessResponse(0, FALSE, "absent")]

\* the checkout session a completion request retrieved: payment_status = 'paid'
\* with a subscription, and their ids
NoSession == [paid |-> FALSE, subscription |-> Null, customer |-> Null]

\* what the completion request keeps of the row findByUserId returned
NoSubscription == [found |-> FALSE, stripe_subscription_id |-> Null]

\* the body of the checkout-completion answer: the status code and success
CompletionResponse(code, success) == [code |-> code, success |-> success]

NoCompletion ==
  [pc |-> "idle", user_id |-> Null, sessionId |-> Null, session |-> NoSession,
   subscription |-> NoSubscription, resp |-> CompletionResponse(0, FALSE)]

\* the row getOrCreateCustomer leaves behind when a user starts a checkout
getOrCreateCustomer(customerId) == NewRow(customerId, Null, "INACTIVE")

\* ----------------------------------------------------------- table queries
\* .eq(column, value).single(): the one matching row, else PGRST116 -> null
RowsWhere(t, column, value) == {u \in Users : t[u].present /\ t[u][column] = value}

Single(S) == IF Cardinality(S) = 1 THEN CHOOSE u \in S : TRUE ELSE Null

findByStripeCustomerId(customerId) == Single(RowsWhere(subs, "stripe_customer_id", customerId))

findByStripeSubscriptionId(subscriptionId) ==
  Single(RowsWhere(subs, "stripe_subscription_id", subscriptionId))

\* a lookup that resolves any e-mail to some user (faulty variant of findByEmail,
\* against which the unresolvable linkage is tried)
findByEmail_AnyUser(email) == CHOOSE u \in Users : TRUE

findByEmail(email) == Single({u \in Users : UserEmail[u] = email})

\* UNIQUE columns of the subscriptions table (NULLs do not collide)
UniqueColumns(t) ==
  \A u, v \in Users :
    (u # v /\ t[u].present /\ t[v].present) =>
      /\ t[u].stripe_customer_id # t[v].stripe_customer_id
      /\ (t[u].stripe_subscription_id = Null
          \/ t[u].stripe_subscription_id # t[v].stripe_subscription_id)

\* SubscriptionModel.update: the table after .update(body).eq('user_id', userId)
update(userId, body) ==
  IF userId \in Users /\ subs[userId].present
  THEN [subs EXCEPT ![userId] = ApplyUpdate(@, body)]
  ELSE subs

\* SubscriptionModel.updateByStripeId: .update(body).eq('stripe_subscription_id', id)
updateByStripeId(stripeSubscriptionId, body) ==
  [u \in Users |->
     IF subs[u].present /\ subs[u].stripe_subscription_id = stripeSubscriptionId
     THEN ApplyUpdate(subs[u], body)
     ELSE subs[u]]

\* a lookup that never finds the ledger entry (faulty variant of
\* existsByStripeEventId, against which the idempotence property is tried)
existsByStripeEventId_Never(stripeEventId) == FALSE

\* WebhookEventModel.existsByStripeEventId
existsByStripeEventId(stripeEventId) ==
  \E r \in BagToSet(ledger) : r.stripe_event_id = stripeEventId

\* WebhookEventModel.create: the inserted row (processed: false)
\* an insert that stores the entry as processed (faulty variant of LedgerRow,
\* against which the lifecycle of the ledger entry is tried)
LedgerRow_BornProcessed(stripeEventId, eventType) ==
  [stripe_event_id |-> stripeEventId, event_type |-> eventType, processed |-> TRUE]

LedgerRow(stripeEventId, eventType) ==
  [stripe_event_id |-> stripeEventId, event_type |-> eventType, processed |-> FALSE]

\* a ledger without the UNIQUE index on stripe_event_id (faulty variant of
\* UniqueViolation, against which the concurrency property is tried)
UniqueViolation_None(stripeEventId) == FALSE

\* webhook_events.stripe_event_id is UNIQUE: the insert is refused (23505) when
\* a row with that event id is already there
UniqueViolation(stripeEventId) ==
  \E r \in BagToSet(ledger) : r.stripe_event_id = stripeEventId

\* WebhookEventModel.markAsProcessed
markAsProcessed(stripeEventId) ==
  LET Marked(r) == IF r.stripe_event_id = stripeEventId
                   THEN [r EXCEPT !.processed = TRUE]
                   ELSE r
      Unmarked(m) == [m EXCEPT !.processed = FALSE]
  IN [m \in {Marked(r) : r \in BagToSet(ledger)} |->
        CopiesIn(m, ledger)
        + (IF m.stripe_event_id = stripeEventId THEN CopiesIn(Unmarked(m), ledger) ELSE 0)]

Bump(h, e) == [h EXCEPT ![e] = IF @ < 2 THEN @ + 1 ELSE 2]

\* ----------------------------------------------------------- the provider
\* Each provider step changes the provider's subscription and emits one event
\* carrying the snapshot; the provider assigns the event id.
Emit(ev) == emitted' = Append(emitted, ev)

\* a checkout is paid: the provider creates the subscription
ProvCreate(s, c, p, st, t) ==
  /\ ~prov[s].exists
  /\ s = "sub_1" \/ prov["sub_1"].exists
  /\ \A o \in SubIds : prov[o].exists => prov[o].status = "canceled" \/ prov[o].customer # c
  /\ prov' = [prov EXCEPT ![s] = ProvSub(c, st, p, t, FALSE)]
  /\ Emit(Event("customer.subscription.created", s, prov'[s], "legacy"))
  /\ UNCHANGED <<subs, ledger, dl, sy, runs, applied, ua, call, rp, co>>

\* plan change, status change, renewal (a later period start) or a cosmetic change
ProvUpdate(s, p, st, t) ==
  /\ prov[s].exists
  /\ prov[s].status # "canceled"
  /\ t >= prov[s].current_period_start
  /\ prov' = [prov EXCEPT ![s] = ProvSub(@.customer, st, p, t, @.cancel_at_period_end)]
  /\ Emit(Event("customer.subscription.updated", s, prov'[s], "legacy"))
  /\ UNCHANGED <<subs, ledger, dl, sy, runs, applied, ua, call, rp, co>>

\* the subscription ends at the provider
ProvDelete(s) ==
  /\ prov[s].exists
  /\ prov[s].status # "canceled"
  /\ prov' = [prov EXCEPT ![s].status = "canceled"]
  /\ Emit(Event("customer.subscription.deleted", s, prov'[s], "legacy"))
  /\ UNCHANGED <<subs, ledger, dl, sy, runs, applied, ua, call, rp, co>>

\* an invoice of the subscription is paid or fails; shape is the API version of
\* the payload: "legacy" carries invoice.subscription, "basil" carries
\* invoice.parent.subscription_details.subscription
ProvInvoice(s, paid, shape) ==
  /\ prov[s].exists
  /\ prov[s].status # "canceled"
  /\ prov' = [prov EXCEPT ![s].status = IF paid THEN "active" ELSE "past_due"]
  /\ Emit(Event(IF paid THEN "invoice.payment_succeeded" ELSE "invoice.payment_failed",
                s, prov'[s], shape))
  /\ UNCHANGED <<subs, ledger, dl, sy, runs, applied, ua, call, rp, co>>

\* an event of a type the endpoint has no handler for
ProvOther(type) ==
  /\ Emit(OtherEvent(type))
  /\ UNCHANGED <<subs, ledger, prov, dl, sy, runs, applied, ua, call, rp, co>>

\* out-of-scope metering: a feature use consumes a credit
Meter(u) ==
  /\ subs[u].present
  /\ subs[u].credits_used < MaxUsed
  /\ subs[u].credits_total = NullN \/ subs[u].credits_used < subs[u].credits_total
  /\ subs' = [subs EXCEPT ![u].credits_used = @ + 1]
  /\ UNCHANGED <<ledger, prov, emitted, dl, sy, runs, applied, ua, call, rp, co>>

\* ------------------------------------------------- StripeService handlers
\* an update that leaves credits_used as it is (faulty variant of createdUpdate,
\* against which the postcondition of subscription.created is tried)
createdUpdate_KeepsUsed(ev) ==
  LET planName == getPlanFromPriceId(ev.price) IN
  [NoUpdate EXCEPT
     !.stripe_subscription_id = ev.id,
     !.status = "ACTIVE",
     !.plan_name = planName,
     !.price_id = ev.price,
     !.current_period_start = isoOrUndefined(ev.current_period_start),
     !.current_period_end = isoOrUndefined(current_period_end(ev)),
     !.credits_total = getPlanCredits(planName),
     !.credits_reset_at = isoOrUndefined(current_period_end(ev))]

\* handleSubscriptionCreated: the body of the update of the resolved row
createdUpdate(ev) ==
  LET planName == getPlanFromPriceId(ev.price) IN
  [NoUpdate EXCEPT
     !.stripe_subscription_id = ev.id,
     !.status = "ACTIVE",
     !.plan_name = planName,
     !.price_id = ev.price,
     !.current_period_start = isoOrUndefined(ev.current_period_start),
     !.current_period_end = isoOrUndefined(current_period_end(ev)),
     !.credits_total = getPlanCredits(planName),
     !.credits_used = 0,
     !.credits_reset_at = isoOrUndefined(current_period_end(ev))]

\* handleSubscriptionUpdated: isNewCycle, from the row read before the update
isNewCycle(ev, existing) ==
  LET nextPeriodStart == ev.current_period_start * 1000
      prevPeriodStart == IF existing.found /\ existing.current_period_start # NullN
                         THEN getTime(existing.current_period_start)
                         ELSE UndefN
  IN prevPeriodStart # UndefN /\ prevPeriodStart # nextPeriodStart

\* a handler that resets the credits on every update (faulty variant of
\* resetsCredits, against which the renewal reset law is tried)
resetsCredits_Always(ev, existing) == TRUE

\* handleSubscriptionUpdated: the condition under which credits are reset
resetsCredits(ev, existing) ==
  \/ isNewCycle(ev, existing)
  \/ ~existing.found
  \/ existing.plan_name # getPlanFromPriceId(ev.price)

\* an update that leaves the status to whoever wrote it last (faulty variant of
\* updatedUpdate, against which the authority of the webhook is tried)
updatedUpdate_KeepsStatus(ev, existing) ==
  LET planName == getPlanFromPriceId(ev.price)
      nextPeriodStart == ev.current_period_start * 1000
      base == [NoUpdate EXCEPT
                 !.plan_name = planName,
                 !.price_id = ev.price,
                 !.current_period_start =
                    IF nextPeriodStart # 0 THEN nextPeriodStart ELSE UndefN,
                 !.current_period_end = isoOrUndefined(current_period_end(ev)),
                 !.credits_total = getPlanCredits(planName)]
  IN IF resetsCredits(ev, existing)
     THEN [base EXCEPT !.credits_used = 0,
                       !.credits_reset_at = isoOrUndefined(current_period_end(ev))]
     ELSE base

\* handleSubscriptionUpdated: the body of the update by subscription id
updatedUpdate(ev, existing) ==
  LET planName == getPlanFromPriceId(ev.price)
      nextPeriodStart == ev.current_period_start * 1000
      base == [NoUpdate EXCEPT
                 !.status = statusMap(ev.status),
                 !.plan_name = planName,
                 !.price_id = ev.price,
                 !.current_period_start =
                    IF nextPeriodStart # 0 THEN nextPeriodStart ELSE UndefN,
                 !.current_period_end = isoOrUndefined(current_period_end(ev)),
                 !.credits_total = getPlanCredits(planName)]
  IN IF resetsCredits(ev, existing)
     THEN [base EXCEPT !.credits_used = 0,
                       !.credits_reset_at = isoOrUndefined(current_period_end(ev))]
     ELSE base

\* handleSubscriptionDeleted: the body of the update by subscription id; price_id
\* and stripe_subscription_id are given as undefined, credits_reset_at as null
deletedUpdate(now) ==
  [NoUpdate EXCEPT
     !.status = "CANCELED",
     !.plan_name = "FREE",
     !.price_id = Undef,
     !.stripe_subscription_id = Undef,
     !.current_period_end = toISOString(now),
     !.credits_total = getPlanCredits("FREE"),
     !.credits_used = 0,
     !.credits_reset_at = NullN]

\* handleInvoicePaymentSucceeded / handleInvoicePaymentFailed: the update body
invoiceUpdate(status) == [NoUpdate EXCEPT !.status = status]

\* what the row read by a handler keeps of it
ReadRow(u) ==
  IF u = Null THEN NoRead
  ELSE [found |-> TRUE, user_id |-> u,
        current_period_start |-> subs[u].current_period_start,
        plan_name |-> subs[u].plan_name]

\* handleSubscriptionCreated, no row for the customer: look the customer's
\* e-mail up at the provider, the user by e-mail, then link or create the row.
\* The result is the table after it and the user whose row was resolved (Null
\* when none was; every error on the way is caught and logged).
linkCustomer(customerId) ==
  LET user == findByEmail(CustomerEmail[customerId]) IN
  IF user = Null THEN [table |-> subs, user_id |-> Null]
  ELSE IF subs[user].present
       THEN LET t == update(user, [NoUpdate EXCEPT !.stripe_customer_id = customerId]) IN
            IF UniqueColumns(t) THEN [table |-> t, user_id |-> user]
            ELSE [table |-> subs, user_id |-> Null]
       ELSE LET t == [subs EXCEPT ![user] = NewRow(customerId, Null, "INACTIVE")] IN
            IF UniqueColumns(t) THEN [table |-> t, user_id |-> user]
            ELSE [table |-> subs, user_id |-> Null]

\* ------------------------------------------------------------------- sync
NoSync == [pc |-> "idle", user_id |-> Null, customer |-> Null, list |-> << >>]

\* a Stripe.Subscription as stripe.subscriptions.list returns it
Listed(s) ==
  [id |-> s, status |-> prov[s].status, price |-> prov[s].price,
   current_period_start |-> prov[s].current_period_start]

\* the subscription ids, most recently created first
NewestFirst == <<"sub_2", "sub_1">>

\* stripe.subscriptions.list({customer, status: 'all'}): most recent first
subscriptionsList(customerId) ==
  LET mine(s) == prov[s].exists /\ prov[s].customer = customerId IN
  SelectSeq(NewestFirst, mine)

ListedSeq(ids) == [i \in 1..Len(ids) |-> Listed(ids[i])]

IsLive(sub) == sub.status = "active" \/ sub.status = "past_due" \/ sub.status = "trialing"

\* Array.prototype.find: the index of the first element that is live, 0 if none
findLive(list) ==
  IF \E i \in 1..Len(list) : IsLive(list[i])
  THEN CHOOSE i \in 1..Len(list) : IsLive(list[i]) /\ \A j \in 1..(i - 1) : ~IsLive(list[j])
  ELSE 0

\* a sync that leaves credits_total as it is (faulty variant of syncUpdate,
\* against which the linkage repair is tried)
syncUpdate_NoCredits(list) ==
  LET i == findLive(list) IN
  IF i # 0
  THEN LET activeSubscription == list[i]
           planName == getPlanFromPriceId(activeSubscription.price)
       IN [NoUpdate EXCEPT
             !.stripe_subscription_id = activeSubscription.id,
             !.status = statusMap(activeSubscription.status),
             !.plan_name = planName,
             !.price_id = activeSubscription.price,
             !.current_period_start = isoOrUndefined(activeSubscription.current_period_start),
             !.current_period_end = isoOrUndefined(current_period_end(activeSubscription))]
  ELSE IF Len(list) > 0 /\ list[1].status = "canceled"
       THEN [NoUpdate EXCEPT !.stripe_subscription_id = list[1].id, !.status = "CANCELED"]
       ELSE NoUpdate

\* syncSubscriptionFromStripe: the update of the user's row, from the listed subscriptions
syncUpdate(list) ==
  LET i == findLive(list) IN
  IF i # 0
  THEN LET activeSubscription == list[i]
           planName == getPlanFromPriceId(activeSubscription.price)
       IN [NoUpdate EXCEPT
             !.stripe_subscription_id = activeSubscription.id,
             !.status = statusMap(activeSubscription.status),
             !.plan_name = planName,
             !.price_id = activeSubscription.price,
             !.current_period_start = isoOrUndefined(activeSubscription.current_period_start),
             !.current_period_end = isoOrUndefined(current_period_end(activeSubscription)),
             !.credits_total = getPlanCredits(planName)]
  ELSE IF Len(list) > 0 /\ list[1].status = "canceled"
       THEN [NoUpdate EXCEPT !.stripe_subscription_id = list[1].id, !.status = "CANCELED"]
       ELSE NoUpdate

\* POST /debug/sync-subscription: SubscriptionModel.findByUserId, 404 without a row
SyncStart(u) ==
  /\ sy.pc = "idle"
  /\ subs[u].present
  /\ sy' = [pc |-> "list", user_id |-> u, customer |-> subs[u].stripe_customer_id,
            list |-> << >>]
  /\ UNCHANGED <<subs, ledger, prov, emitted, dl, runs, applied, ua, call, rp, co>>

\* syncSubscriptionFromStripe: await stripe.subscriptions.list; an error ends the sync
SyncList(ok) ==
  /\ sy.pc = "list"
  /\ sy' = IF ok
           THEN [sy EXCEPT !.pc = "update", !.list = ListedSeq(subscriptionsList(sy.customer))]
           ELSE NoSync
  /\ UNCHANGED <<subs, ledger, prov, emitted, dl, runs, applied, ua, call, rp, co>>

\* syncSubscriptionFromStripe: await SubscriptionModel.update; an error is logged
SyncUpdate(ok) ==
  LET table == update(sy.user_id, syncUpdate(sy.list)) IN
  /\ sy.pc = "update"
  /\ subs' = IF ok /\ UniqueColumns(table) THEN table ELSE subs
  /\ sy' = NoSync
  /\ UNCHANGED <<ledger, prov, emitted, dl, runs, applied, ua, call, rp, co>>

Sync ==
  \/ \E u \in Users : SyncStart(u)
  \/ \E ok \in BOOLEAN : SyncList(ok)
  \/ \E ok \in BOOLEAN : SyncUpdate(ok)

\* ----------------------------------------------------------- user actions
\* StripeService.switchPlan, cancelSubscription, cancelSubscriptionImmediately
\* and reactivateSubscription, one step per await
UserOps ==
  {"switchPlan", "cancelSubscription", "cancelSubscriptionImmediately",
   "reactivateSubscription"}

\* no call in flight. result is the status the caller gets (200, or the
\* CustomError's code); mutated and called record whether the call has written
\* the subscriptions table and whether it has changed the provider's subscription
NoUa ==
  [pc |-> "idle", op |-> Null, user_id |-> Null, price |-> Null, customer |-> Null,
   sub_id |-> Null, list |-> << >>, existing |-> NoRead, returned |-> 0,
   result |-> 0, reason |-> Null, synced |-> FALSE, mutated |-> FALSE, called |-> FALSE]

\* throw new CustomError(reason, code)
Reject(code, reason) ==
  ua' = [ua EXCEPT !.pc = "done", !.result = code, !.reason = reason]

\* the caller invokes an operation; newPriceId is given to switchPlan only
UserCall(op, u, newPriceId) ==
  /\ ua.pc \in {"idle", "done"}
  /\ (op = "switchPlan") = (newPriceId # Null)
  /\ ua' = [NoUa EXCEPT !.pc = "find", !.op = op, !.user_id = u, !.price = newPriceId]
  /\ UNCHANGED <<subs, ledger, prov, emitted, dl, sy, runs, applied, call, rp, co>>

\* await SubscriptionModel.findByUserId(userId), and the branch on the row's
\* stripe_subscription_id: cancelSubscriptionImmediately throws, the others sync
UserFind ==
  LET row == subs[ua.user_id] IN
  /\ ua.pc = "find"
  /\ IF ~row.present
     THEN Reject(404, "no_record")
     ELSE IF row.stripe_subscription_id = Null
          THEN IF ua.op = "cancelSubscriptionImmediately"
               THEN Reject(400, "no_subscription_id")
               ELSE ua' = [ua EXCEPT !.pc = "sync_list",
                                     !.customer = row.stripe_customer_id]
          ELSE ua' = [ua EXCEPT
                        !.pc = IF ua.op = "cancelSubscriptionImmediately"
                               THEN "prov_cancel" ELSE "retrieve",
                        !.customer = row.stripe_customer_id,
                        !.sub_id = row.stripe_subscription_id]
  /\ UNCHANGED <<subs, ledger, prov, emitted, dl, sy, runs, applied, call, rp, co>>

\* syncSubscriptionFromStripe: await stripe.subscriptions.list; its error is caught
UserSyncList(ok) ==
  /\ ua.pc = "sync_list"
  /\ ua' = IF ok
           THEN [ua EXCEPT !.pc = "sync_update", !.synced = TRUE,
                           !.list = ListedSeq(subscriptionsList(ua.customer))]
           ELSE [ua EXCEPT !.pc = "refetch", !.synced = TRUE]
  /\ UNCHANGED <<subs, ledger, prov, emitted, dl, sy, runs, applied, call, rp, co>>

\* syncSubscriptionFromStripe: await SubscriptionModel.update; its error is caught
UserSyncUpdate(ok) ==
  LET table == update(ua.user_id, syncUpdate(ua.list)) IN
  /\ ua.pc = "sync_update"
  /\ subs' = IF ok /\ UniqueColumns(table) THEN table ELSE subs
  /\ ua' = [ua EXCEPT !.pc = "refetch", !.list = << >>,
                      !.mutated = @ \/ subs' # subs]
  /\ UNCHANGED <<ledger, prov, emitted, dl, sy, runs, applied, call, rp, co>>

\* the refetch after the sync: without a subscription id the call is rejected
UserRefetch ==
  LET row == subs[ua.user_id] IN
  /\ ua.pc = "refetch"
  /\ IF ~row.present \/ row.stripe_subscription_id = Null
     THEN Reject(404, "no_active_subscription")
     ELSE ua' = [ua EXCEPT !.pc = "retrieve", !.sub_id = row.stripe_subscription_id]
  /\ UNCHANGED <<subs, ledger, prov, emitted, dl, sy, runs, applied, call, rp, co>>

\* the checks of switchPlan on the retrieved subscription
switchPlanCheck(stripeSub) ==
  IF stripeSub.status = "canceled" THEN "canceled"
  ELSE IF stripeSub.status \notin {"active", "past_due", "trialing"} THEN "bad_status"
  ELSE "ok"

\* checks that let an active subscription through (faulty variant of
\* reactivateCheck, against which the reactivation rule is tried)
reactivateCheck_AllowsActive(stripeSubscription) ==
  IF stripeSubscription.status = "canceled" THEN "canceled"
  ELSE IF ~stripeSubscription.cancel_at_period_end THEN "not_scheduled"
  ELSE "ok"

\* the checks of reactivateSubscription on the retrieved subscription
reactivateCheck(stripeSubscription) ==
  IF stripeSubscription.status = "canceled" THEN "canceled"
  ELSE IF stripeSubscription.status = "active" THEN "already_active"
  ELSE IF ~stripeSubscription.cancel_at_period_end THEN "not_scheduled"
  ELSE "ok"

\* await stripe.subscriptions.retrieve(id) and the checks on what it returns;
\* cancelSubscription only verifies that the subscription exists
UserRetrieve(ok) ==
  LET stripeSub == prov[ua.sub_id]
      check == CASE ua.op = "switchPlan" -> switchPlanCheck(stripeSub)
                 [] ua.op = "reactivateSubscription" -> reactivateCheck(stripeSub)
                 [] OTHER -> "ok"
  IN /\ ua.pc = "retrieve"
     /\ IF ~ok THEN Reject(500, "provider_error")
        ELSE IF ~stripeSub.exists THEN Reject(404, "resource_missing")
        ELSE IF check # "ok" THEN Reject(400, check)
        ELSE ua' = [ua EXCEPT !.pc = "prov_update"]
     /\ UNCHANGED <<subs, ledger, prov, emitted, dl, sy, runs, applied, call, rp, co>>

\* a provider update that changes nothing (faulty variant of updatedSubscription,
\* against which the graceful cancel is tried)
updatedSubscription_Unchanged(op, stripeSub, newPriceId, t) == stripeSub

\* the subscription after stripe.subscriptions.update(id, params), period start t
updatedSubscription(op, stripeSub, newPriceId, t) ==
  CASE op = "switchPlan" ->
         [stripeSub EXCEPT !.price = newPriceId, !.cancel_at_period_end = FALSE,
                           !.current_period_start = t]
    [] op = "cancelSubscription" -> [stripeSub EXCEPT !.cancel_at_period_end = TRUE]
    [] OTHER -> [stripeSub EXCEPT !.cancel_at_period_end = FALSE]

\* await stripe.subscriptions.update(...): the provider refuses (an error, or
\* the subscription is canceled by now) or applies it and emits
\* customer.subscription.updated; switchPlan goes on to the local update
UserProvUpdate(ok, t) ==
  LET stripeSub == prov[ua.sub_id] IN
  /\ ua.pc = "prov_update"
  /\ IF ~ok \/ ~stripeSub.exists \/ stripeSub.status = "canceled"
     THEN /\ t = 1
          /\ Reject(500, "provider_error")
          /\ UNCHANGED <<prov, emitted>>
     ELSE /\ IF ua.op = "switchPlan"
             THEN t >= stripeSub.current_period_start
             ELSE t = stripeSub.current_period_start
          /\ prov' = [prov EXCEPT
                        ![ua.sub_id] = updatedSubscription(ua.op, stripeSub, ua.price, t)]
          /\ Emit(Event("customer.subscription.updated", ua.sub_id, prov'[ua.sub_id],
                        "legacy"))
          /\ ua' = IF ua.op = "switchPlan"
                   THEN [ua EXCEPT !.pc = "switch_find", !.called = TRUE, !.returned = t]
                   ELSE [ua EXCEPT !.pc = "done", !.called = TRUE, !.result = 200,
                                   !.reason = "ok"]
  /\ UNCHANGED <<subs, ledger, dl, sy, runs, applied, call, rp, co>>

\* switchPlan: const existing = await SubscriptionModel.findByUserId(userId)
UserSwitchFind ==
  /\ ua.pc = "switch_find"
  /\ ua' = [ua EXCEPT !.pc = "switch_update",
                      !.existing = ReadRow(IF subs[ua.user_id].present
                                           THEN ua.user_id ELSE Null)]
  /\ UNCHANGED <<subs, ledger, prov, emitted, dl, sy, runs, applied, call, rp, co>>

\* a switch that resets credits_used whatever the plan (faulty variant of
\* switchUpdate, against which the switch plan law is tried)
switchUpdate_AlwaysResets(newPriceId, periodStart, existing) ==
  LET planName == getPlanFromPriceId(newPriceId) IN
  [NoUpdate EXCEPT
     !.status = "ACTIVE",
     !.plan_name = planName,
     !.price_id = newPriceId,
     !.current_period_start = toISOString(periodStart),
     !.current_period_end = toISOString(periodStart + PeriodLen),
     !.credits_total = getPlanCredits(planName),
     !.credits_used = 0,
     !.credits_reset_at = toISOString(periodStart + PeriodLen)]

\* switchPlan: the body of the immediate local update
switchUpdate(newPriceId, periodStart, existing) ==
  LET planName == getPlanFromPriceId(newPriceId)
      base == [NoUpdate EXCEPT
                 !.status = "ACTIVE",
                 !.plan_name = planName,
                 !.price_id = newPriceId,
                 !.current_period_start = toISOString(periodStart),
                 !.current_period_end = toISOString(periodStart + PeriodLen),
                 !.credits_total = getPlanCredits(planName)]
  IN IF ~existing.found \/ existing.plan_name # planName
     THEN [base EXCEPT !.credits_used = 0,
                       !.credits_reset_at = toISOString(periodStart + PeriodLen)]
     ELSE base

\* switchPlan: await SubscriptionModel.updateByStripeId; its error is caught
\* and logged, the call returns normally either way
UserSwitchUpdate(ok) ==
  LET table == updateByStripeId(ua.sub_id, switchUpdate(ua.price, ua.returned, ua.existing)) IN
  /\ ua.pc = "switch_update"
  /\ subs' = IF ok /\ UniqueColumns(table) THEN table ELSE subs
  /\ ua' = [ua EXCEPT !.pc = "done", !.result = 200, !.reason = "ok",
                      !.existing = NoRead, !.mutated = @ \/ subs' # subs]
  /\ UNCHANGED <<ledger, prov, emitted, dl, sy, runs, applied, call, rp, co>>

\* cancelSubscriptionImmediately: await stripe.subscriptions.cancel(id); the
\* provider emits customer.subscription.deleted
UserProvCancel(ok) ==
  LET stripeSub == prov[ua.sub_id] IN
  /\ ua.pc = "prov_cancel"
  /\ IF ~ok \/ ~stripeSub.exists \/ stripeSub.status = "canceled"
     THEN /\ Reject(500, "provider_error")
          /\ UNCHANGED <<prov, emitted>>
     ELSE /\ prov' = [prov EXCEPT ![ua.sub_id].status = "canceled"]
          /\ Emit(Event("customer.subscription.deleted", ua.sub_id, prov'[ua.sub_id],
                        "legacy"))
          /\ ua' = [ua EXCEPT !.pc = "cancel_update", !.called = TRUE]
  /\ UNCHANGED <<subs, ledger, dl, sy, runs, applied, call, rp, co>>

\* cancelSubscriptionImmediately: await SubscriptionModel.update(userId, ...) at
\* time now; its error is thrown to the caller
UserCancelUpdate(ok, now) ==
  LET table == update(ua.user_id, deletedUpdate(now)) IN
  /\ ua.pc = "cancel_update"
  /\ IF ok /\ UniqueColumns(table)
     THEN /\ subs' = table
          /\ ua' = [ua EXCEPT !.pc = "done", !.result = 200, !.reason = "ok",
                              !.mutated = @ \/ subs' # subs]
     ELSE /\ subs' = subs
          /\ Reject(500, "db_error")
  /\ UNCHANGED <<ledger, prov, emitted, dl, sy, runs, applied, call, rp, co>>

\* the steps of a call in flight
UserStep ==
  \/ UserFind
  \/ \E ok \in BOOLEAN : UserSyncList(ok)
  \/ \E ok \in BOOLEAN : UserSyncUpdate(ok)
  \/ UserRefetch
  \/ \E ok \in BOOLEAN : UserRetrieve(ok)
  \/ \E ok \in BOOLEAN, t \in Times : UserProvUpdate(ok, t)
  \/ UserSwitchFind
  \/ \E ok \in BOOLEAN : UserSwitchUpdate(ok)
  \/ \E ok \in BOOLEAN : UserProvCancel(ok)
  \/ \E ok \in BOOLEAN, now \in Times : UserCancelUpdate(ok, now)

\* ------------------------------------------------------------ initial state
\* the first event of a user who subscribed before the behaviour starts: its id
\* lies before the ids of the events emitted in the behaviour
FirstEventId == 0

FirstSubscription == ProvSub("cus_1", "active", PRICE_PRO_MONTHLY, 1, FALSE)

FirstEvent == Event("customer.subscription.created", "sub_1", FirstSubscription, "legacy")

\* The table starts empty, or with the row a started checkout leaves, or with
\* the row and ledger entry a handled subscription.created leaves.
Init ==
  /\ \/ /\ subs \in {[u \in Users |-> NoRow], [u \in Users |-> getOrCreateCustomer("cus_1")]}
        /\ ledger = EmptyBag
        /\ prov = [s \in SubIds |-> NoProvSub]
     \/ /\ subs = [u \in Users |->
                     ApplyUpdate(getOrCreateCustomer("cus_1"), createdUpdate(FirstEvent))]
        /\ ledger = SetToBag({[stripe_event_id |-> FirstEventId,
                               event_type |-> FirstEvent.type, processed |-> TRUE]})
        /\ prov = [s \in SubIds |-> IF s = "sub_1" THEN FirstSubscription ELSE NoProvSub]
  /\ emitted = << >>
  /\ dl = [d \in Deliveries |-> Idle]
  /\ sy = NoSync
  /\ ua = NoUa
  /\ call = NoCall
  /\ rp = NoReprocess
  /\ co = NoCompletion
  /\ runs = [e \in EventIds |-> 0]
  /\ applied = [e \in EventIds |-> 0]

\* The user actions start from any state the billing flow leaves behind: a
\* provider subscription of cus_1 in any status, flagged or not, or none; and no
\* row, the row of a started checkout, or a row linked to sub_1 by an earlier
\* subscription.created, with credits used or not.
InitialSubscriptions ==
  {NoProvSub} \cup
  {ProvSub("cus_1", st, p, 1, cape) :
     st \in {"active", "past_due", "trialing", "canceled", "unpaid"},
     p \in {PRICE_STARTUP_MONTHLY, PRICE_PRO_MONTHLY},
     cape \in BOOLEAN}

LinkedRow(p, used) ==
  [ApplyUpdate(getOrCreateCustomer("cus_1"),
               createdUpdate(Event("customer.subscription.created", "sub_1",
                                   ProvSub("cus_1", "active", p, 1, FALSE), "legacy")))
     EXCEPT !.credits_used = used]

InitialRows ==
  {NoRow, getOrCreateCustomer("cus_1")} \cup
  {LinkedRow(p, used) : p \in {PRICE_STARTUP_MONTHLY, PRICE_PRO_MONTHLY},
                        used \in 0..MaxUsed}

InitUser ==
  /\ subs \in [Users -> InitialRows]
  /\ \E ps \in InitialSubscriptions :
       prov = [s \in SubIds |-> IF s = "sub_1" THEN ps ELSE NoProvSub]
  /\ ledger = EmptyBag
  /\ emitted = << >>
  /\ dl = [d \in Deliveries |-> Idle]
  /\ sy = NoSync
  /\ ua = NoUa
  /\ call = NoCall
  /\ rp = NoReprocess
  /\ co = NoCompletion
  /\ runs = [e \in EventIds |-> 0]
  /\ applied = [e \in EventIds |-> 0]

\* a user subscribed to sub_1 at price p who has consumed some of the plan's
\* credits through the metering; the provider holds the same subscription
MeteredRows(p) ==
  {[LinkedRow(p, 0) EXCEPT !.credits_used = used] :
     used \in {n \in UsedLevels : n <= getPlanCredits(getPlanFromPriceId(p))}}

InitCredits ==
  /\ \E p \in {PRICE_STARTUP_MONTHLY, PRICE_PRO_MONTHLY} :
       /\ subs \in [Users -> MeteredRows(p)]
       /\ prov = [s \in SubIds |-> IF s = "sub_1"
                                   THEN ProvSub("cus_1", "active", p, 1, FALSE)
                                   ELSE NoProvSub]
  /\ ledger = EmptyBag
  /\ emitted = << >>
  /\ dl = [d \in Deliveries |-> Idle]
  /\ sy = NoSync
  /\ ua = NoUa
  /\ call = NoCall
  /\ rp = NoReprocess
  /\ co = NoCompletion
  /\ runs = [e \in EventIds |-> 0]
  /\ applied = [e \in EventIds |-> 0]

\* ------------------------------------------------------- getPlanCredits calls
\* const plan = planName.toUpperCase(): a TypeError when planName is null
GetPlanCreditsUpper ==
  /\ call.pc = "called"
  /\ call' = IF call.planName.isNull
             THEN [call EXCEPT !.pc = "done", !.threw = TRUE]
             ELSE [call EXCEPT !.pc = "compare",
                               !.plan = toUpperCaseText(call.planName.text)]
  /\ UNCHANGED <<subs, ledger, prov, emitted, dl, sy, runs, applied, ua, rp, co>>

\* the comparisons of plan with the plan names, and the return
GetPlanCreditsReturn ==
  /\ call.pc = "compare"
  /\ call' = [call EXCEPT !.pc = "done",
                          !.result = getPlanCredits(PlanNamed(call.plan))]
  /\ UNCHANGED <<subs, ledger, prov, emitted, dl, sy, runs, applied, ua, rp, co>>

\* every spelling of a word in upper and lower case
CaseVariants(word) ==
  {[i \in 1..Len(word) |-> IF capital[i] THEN upperChar(word[i]) ELSE lowerChar(word[i])] :
     capital \in [1..Len(word) -> BOOLEAN]}

\* the plan names of the credit policy, and names it does not know: the empty
\* string, a name of its own, a known name cut short or extended, a name with
\* a character that is no letter
PolicyWords ==
  {<<"F", "R", "E", "E">>, <<"B", "A", "S", "I", "C">>,
   <<"S", "T", "A", "R", "T", "U", "P">>, <<"P", "R", "O">>,
   <<"E", "N", "T", "E", "R", "P", "R", "I", "S", "E">>}

UnknownWords ==
  {<< >>, <<"G", "O", "L", "D">>, <<"P", "R">>, <<"P", "R", "O", "S">>,
   <<"P", "R", "O", "-", "1">>, <<" ", "P", "R", "O">>}

PlanNameInputs ==
  {JsNull} \cup {JsString(t) : t \in UNION {CaseVariants(w) : w \in PolicyWords \cup UnknownWords}}

InitPolicy ==
  /\ subs = [u \in Users |-> NoRow]
  /\ prov = [s \in SubIds |-> NoProvSub]
  /\ ledger = EmptyBag
  /\ emitted = << >>
  /\ dl = [d \in Deliveries |-> Idle]
  /\ sy = NoSync
  /\ ua = NoUa
  /\ runs = [e \in EventIds |-> 0]
  /\ applied = [e \in EventIds |-> 0]
  /\ rp = NoReprocess
  /\ co = NoCompletion
  /\ \E planName \in PlanNameInputs : call = [NoCall EXCEPT !.pc = "called", !.planName = planName]

NextPolicy ==
  \/ GetPlanCreditsUpper
  \/ GetPlanCreditsReturn

SpecPolicy == InitPolicy /\ [][NextPolicy]_vars

\* ------------------------------------------------------- webhook endpoint
At(d, pc) == dl[d].pc = pc

Goto(d, pc) == dl' = [dl EXCEPT ![d].pc = pc]

\* res.status(code).json(...): the request is answered
Respond(d, resp) ==
  dl' = [dl EXCEPT ![d] = [pc |-> "done", ev |-> @.ev, ex |-> NoRead, resp |-> resp]]

AlreadyProcessed == Response(200, TRUE, "absent")
HandlerFailed == Response(500, FALSE, "absent")
BadSignature == Response(400, FALSE, "absent")

\* the provider (re)delivers event e; constructEvent checks the signature
Receive(d, e, sigok) ==
  /\ dl[d].pc \in {"idle", "done"}
  /\ e \in 1..Len(emitted)
  /\ IF sigok
     THEN dl' = [dl EXCEPT ![d] = [pc |-> "exists", ev |-> e, ex |-> NoRead,
                                   resp |-> NoResponse]]
     ELSE dl' = [dl EXCEPT ![d] = [pc |-> "done", ev |-> e, ex |-> NoRead,
                                   resp |-> BadSignature]]
  /\ UNCHANGED <<subs, ledger, prov, emitted, sy, runs, applied, ua, call, rp, co>>

\* await WebhookEventModel.existsByStripeEventId(event.id)
CheckExists(d) ==
  /\ At(d, "exists")
  /\ IF existsByStripeEventId(dl[d].ev)
     THEN Respond(d, AlreadyProcessed)
     ELSE Goto(d, "create")
  /\ UNCHANGED <<subs, ledger, prov, emitted, sy, runs, applied, ua, call, rp, co>>

\* a switch whose default case sets processed like the other cases (faulty
\* variant of Dispatch, against which the handling of unknown types is tried)
Dispatch_MarksUnknown(ev) ==
  CASE ev.type = "customer.subscription.created" -> "cr_find"
    [] ev.type = "customer.subscription.updated" -> "up_find"
    [] ev.type = "customer.subscription.deleted" -> "del_update"
    [] ev.type = "invoice.payment_succeeded" ->
         IF ev.shape = "basil" THEN "ps_update" ELSE "throw"
    [] ev.type = "invoice.payment_failed" ->
         IF ev.shape = "legacy" THEN "pf_update" ELSE "mark"
    [] OTHER -> "mark"

\* the switch on event.type, up to the first await of the handler it calls
Dispatch(ev) ==
  CASE ev.type = "customer.subscription.created" -> "cr_find"
    [] ev.type = "customer.subscription.updated" -> "up_find"
    [] ev.type = "customer.subscription.deleted" -> "del_update"
    [] ev.type = "invoice.payment_succeeded" ->
         \* invoice.parent is undefined in a legacy payload: TypeError
         IF ev.shape = "basil" THEN "ps_update" ELSE "throw"
    [] ev.type = "invoice.payment_failed" ->
         \* invoice.subscription is undefined in a basil payload: nothing to do
         IF ev.shape = "legacy" THEN "pf_update" ELSE "mark"
    [] ev.type = "invoice.created" -> "mark"
    [] OTHER -> "unhandled"

HandledTypes ==
  {"customer.subscription.created", "customer.subscription.updated",
   "customer.subscription.deleted", "invoice.payment_succeeded", "invoice.payment_failed"}

\* await WebhookEventModel.create(...), then the dispatch
CreateLedgerEntry(d) ==
  LET e == dl[d].ev
      ev == emitted[e]
      next == Dispatch(ev)
  IN /\ At(d, "create")
     /\ IF UniqueViolation(e)
        THEN /\ Respond(d, HandlerFailed)
             /\ UNCHANGED <<ledger, runs>>
        ELSE /\ ledger' = ledger (+) SetToBag({LedgerRow(e, ev.type)})
             /\ runs' = IF ev.type \in HandledTypes THEN Bump(runs, e) ELSE runs
             /\ CASE next = "throw" -> Respond(d, HandlerFailed)
                  [] next = "unhandled" -> Respond(d, Response(200, TRUE, "false"))
                  [] OTHER -> Goto(d, next)
     /\ UNCHANGED <<subs, prov, emitted, sy, applied, ua, call, rp, co>>

\* a handler's update is answered by the database: it is applied ("ok"), it is
\* applied and a later step of the handler (the user lookup or the e-mail)
\* throws ("notify_error"), or the database refuses it ("db_error")
HandlerUpdate(d, table, hit, outcome) ==
  IF outcome = "db_error" \/ ~UniqueColumns(table)
  THEN /\ Respond(d, HandlerFailed)
       /\ UNCHANGED <<subs, applied>>
  ELSE /\ subs' = table
       /\ applied' = IF hit THEN Bump(applied, dl[d].ev) ELSE applied
       /\ IF outcome = "notify_error"
          THEN Respond(d, HandlerFailed)
          ELSE Goto(d, "mark")

\* handleSubscriptionCreated: SubscriptionModel.findByStripeCustomerId
CreatedFind(d) ==
  LET u == findByStripeCustomerId(emitted[dl[d].ev].customer) IN
  /\ At(d, "cr_find")
  /\ dl' = [dl EXCEPT ![d].pc = IF u = Null THEN "cr_link" ELSE "cr_update",
                      ![d].ex = ReadRow(u)]
  /\ UNCHANGED <<subs, ledger, prov, emitted, sy, runs, applied, ua, call, rp, co>>

\* handleSubscriptionCreated: the linkage repair, or the 404 when it resolves nothing
CreatedLink(d) ==
  LET r == linkCustomer(emitted[dl[d].ev].customer) IN
  /\ At(d, "cr_link")
  /\ subs' = r.table
  /\ IF r.user_id = Null
     THEN Respond(d, HandlerFailed)
     ELSE dl' = [dl EXCEPT ![d].pc = "cr_update",
                           ![d].ex = [NoRead EXCEPT !.found = TRUE, !.user_id = r.user_id]]
  /\ UNCHANGED <<ledger, prov, emitted, sy, runs, applied, ua, call, rp, co>>

\* handleSubscriptionCreated: SubscriptionModel.update(subscription.user_id, ...)
CreatedUpdate(d, outcome) ==
  LET u == dl[d].ex.user_id IN
  /\ At(d, "cr_update")
  /\ HandlerUpdate(d, update(u, createdUpdate(emitted[dl[d].ev])), subs[u].present, outcome)
  /\ UNCHANGED <<ledger, prov, emitted, sy, runs, ua, call, rp, co>>

\* handleSubscriptionUpdated: SubscriptionModel.findByStripeSubscriptionId
UpdatedFind(d) ==
  /\ At(d, "up_find")
  /\ dl' = [dl EXCEPT ![d].pc = "up_update",
                      ![d].ex = ReadRow(findByStripeSubscriptionId(emitted[dl[d].ev].id))]
  /\ UNCHANGED <<subs, ledger, prov, emitted, sy, runs, applied, ua, call, rp, co>>

HitsByStripeId(s) == RowsWhere(subs, "stripe_subscription_id", s) # {}

\* handleSubscriptionUpdated: SubscriptionModel.updateByStripeId
UpdatedUpdate(d, outcome) ==
  LET ev == emitted[dl[d].ev] IN
  /\ At(d, "up_update")
  /\ HandlerUpdate(d, updateByStripeId(ev.id, updatedUpdate(ev, dl[d].ex)),
                   HitsByStripeId(ev.id), outcome)
  /\ UNCHANGED <<ledger, prov, emitted, sy, runs, ua, call, rp, co>>

\* handleSubscriptionDeleted: SubscriptionModel.updateByStripeId, at time now.
\* The handler then calls UserModel.findById(stripeSubscription.customer): the
\* provider's customer id is no uuid, the lookup on users.id (UUID) is refused
\* and the handler throws after its update, so it never returns normally.
DeletedUpdate(d, outcome, now) ==
  LET ev == emitted[dl[d].ev] IN
  /\ At(d, "del_update")
  /\ outcome # "ok"
  /\ HandlerUpdate(d, updateByStripeId(ev.id, deletedUpdate(now)),
                   HitsByStripeId(ev.id), outcome)
  /\ UNCHANGED <<ledger, prov, emitted, sy, runs, ua, call, rp, co>>

\* handleInvoicePaymentSucceeded: the update; the e-mail's errors are caught
PaymentSucceededUpdate(d, outcome) ==
  LET ev == emitted[dl[d].ev] IN
  /\ At(d, "ps_update")
  /\ outcome # "notify_error"
  /\ HandlerUpdate(d, updateByStripeId(ev.id, invoiceUpdate("ACTIVE")),
                   HitsByStripeId(ev.id), outcome)
  /\ UNCHANGED <<ledger, prov, emitted, sy, runs, ua, call, rp, co>>

\* handleInvoicePaymentFailed: the update
PaymentFailedUpdate(d, outcome) ==
  LET ev == emitted[dl[d].ev] IN
  /\ At(d, "pf_update")
  /\ outcome # "notify_error"
  /\ HandlerUpdate(d, updateByStripeId(ev.id, invoiceUpdate("PAST_DUE")),
                   HitsByStripeId(ev.id), outcome)
  /\ UNCHANGED <<ledger, prov, emitted, sy, runs, ua, call, rp, co>>

\* await WebhookEventModel.markAsProcessed(event.id); res.json({received, processed})
MarkProcessed(d) ==
  /\ At(d, "mark")
  /\ ledger' = markAsProcessed(dl[d].ev)
  /\ Respond(d, Response(200, TRUE, "true"))
  /\ UNCHANGED <<subs, prov, emitted, sy, runs, applied, ua, call, rp, co>>

Outcomes == {"ok", "db_error", "notify_error"}

Provider ==
  \/ \E s \in SubIds, c \in Customers, p \in Prices, st \in {"active", "trialing"} :
       ProvCreate(s, c, p, st, 1)
  \/ \E s \in SubIds, p \in Prices, st \in {"active", "past_due"}, t \in Times :
       ProvUpdate(s, p, st, t)
  \/ \E s \in SubIds : ProvDelete(s)
  \/ \E s \in SubIds, paid \in BOOLEAN, shape \in {"legacy", "basil"} : ProvInvoice(s, paid, shape)
  \/ \E type \in {"foo.bar", "invoice.created"} : ProvOther(type)

Webhook(d) ==
  \/ \E e \in EventIds, sigok \in BOOLEAN : Receive(d, e, sigok)
  \/ CheckExists(d)
  \/ CreateLedgerEntry(d)
  \/ CreatedFind(d)
  \/ CreatedLink(d)
  \/ \E o \in Outcomes : CreatedUpdate(d, o)
  \/ UpdatedFind(d)
  \/ \E o \in Outcomes : UpdatedUpdate(d, o)
  \/ \E o \in Outcomes, now \in Times : DeletedUpdate(d, o, now)
  \/ \E o \in Outcomes : PaymentSucceededUpdate(d, o)
  \/ \E o \in Outcomes : PaymentFailedUpdate(d, o)
  \/ MarkProcessed(d)

\* ----------------------------------------------------- reprocess endpoint
\* POST /webhook-events/:stripeEventId/reprocess, one step per await
ReprocessGoto(pc) == rp' = [rp EXCEPT !.pc = pc]

\* res.json({success: true, data: {processed}}), or the catch block's
\* res.status(error.statusCode || 500).json({success: false})
ReprocessRespond(resp) == rp' = [rp EXCEPT !.pc = "done", !.ex = NoRead, !.resp = resp]

Reprocessed == ReprocessResponse(200, TRUE, "true")

ReprocessFailed(code) == ReprocessResponse(code, FALSE, "absent")

\* the operator asks for event id e to be reprocessed
ReprocessCall(e) ==
  /\ rp.pc \in {"idle", "done"}
  /\ rp' = [NoReprocess EXCEPT !.pc = "find", !.ev = e]
  /\ UNCHANGED <<subs, ledger, prov, emitted, dl, sy, runs, applied, ua, call, co>>

\* WebhookEventModel.findByStripeEventId
findByStripeEventId(stripeEventId) ==
  {r \in BagToSet(ledger) : r.stripe_event_id = stripeEventId}

\* the switch on event.type of the reprocess endpoint, up to the first await of
\* the handler it calls; its default case throws CustomError(400)
reprocessDispatch(ev) ==
  CASE ev.type = "customer.subscription.created" -> "cr_find"
    [] ev.type = "customer.subscription.updated" -> "up_find"
    [] ev.type = "customer.subscription.deleted" -> "del_update"
    [] ev.type = "invoice.payment_succeeded" ->
         IF ev.shape = "basil" THEN "ps_update" ELSE "throw"
    [] ev.type = "invoice.payment_failed" ->
         IF ev.shape = "legacy" THEN "pf_update" ELSE "mark"
    [] OTHER -> "unhandled"

\* await WebhookEventModel.findByStripeEventId, the two rejections, the dispatch
ReprocessFind ==
  LET e == rp.ev
      found == findByStripeEventId(e)
  IN /\ rp.pc = "find"
     /\ IF Cardinality(found) # 1
        THEN /\ ReprocessRespond(ReprocessFailed(404))
             /\ runs' = runs
        ELSE IF \E r \in found : r.processed
        THEN /\ ReprocessRespond(ReprocessFailed(400))
             /\ runs' = runs
        ELSE LET next == reprocessDispatch(emitted[e]) IN
             /\ runs' = IF next = "unhandled" THEN runs ELSE Bump(runs, e)
             /\ CASE next = "throw" -> ReprocessRespond(ReprocessFailed(500))
                  [] next = "unhandled" -> ReprocessRespond(ReprocessFailed(400))
                  [] OTHER -> ReprocessGoto(next)
     /\ UNCHANGED <<subs, ledger, prov, emitted, dl, sy, applied, ua, call, co>>

\* a handler's update, as HandlerUpdate, answered through the reprocess endpoint
ReprocessHandlerUpdate(table, hit, outcome) ==
  IF outcome = "db_error" \/ ~UniqueColumns(table)
  THEN /\ ReprocessRespond(ReprocessFailed(500))
       /\ UNCHANGED <<subs, applied>>
  ELSE /\ subs' = table
       /\ applied' = IF hit THEN Bump(applied, rp.ev) ELSE applied
       /\ IF outcome = "notify_error"
          THEN ReprocessRespond(ReprocessFailed(500))
          ELSE ReprocessGoto("mark")

ReprocessCreatedFind ==
  LET u == findByStripeCustomerId(emitted[rp.ev].customer) IN
  /\ rp.pc = "cr_find"
  /\ rp' = [rp EXCEPT !.pc = IF u = Null THEN "cr_link" ELSE "cr_update",
                      !.ex = ReadRow(u)]
  /\ UNCHANGED <<subs, ledger, prov, emitted, dl, sy, runs, applied, ua, call, co>>

ReprocessCreatedLink ==
  LET r == linkCustomer(emitted[rp.ev].customer) IN
  /\ rp.pc = "cr_link"
  /\ subs' = r.table
  /\ IF r.user_id = Null
     THEN ReprocessRespond(ReprocessFailed(404))
     ELSE rp' = [rp EXCEPT !.pc = "cr_update",
                           !.ex = [NoRead EXCEPT !.found = TRUE, !.user_id = r.user_id]]
  /\ UNCHANGED <<ledger, prov, emitted, dl, sy, runs, applied, ua, call, co>>

ReprocessCreatedUpdate(outcome) ==
  LET u == rp.ex.user_id IN
  /\ rp.pc = "cr_update"
  /\ ReprocessHandlerUpdate(update(u, createdUpdate(emitted[rp.ev])), subs[u].present, outcome)
  /\ UNCHANGED <<ledger, prov, emitted, dl, sy, runs, ua, call, co>>

ReprocessUpdatedFind ==
  /\ rp.pc = "up_find"
  /\ rp' = [rp EXCEPT !.pc = "up_update",
                      !.ex = ReadRow(findByStripeSubscriptionId(emitted[rp.ev].id))]
  /\ UNCHANGED <<subs, ledger, prov, emitted, dl, sy, runs, applied, ua, call, co>>

ReprocessUpdatedUpdate(outcome) ==
  LET ev == emitted[rp.ev] IN
  /\ rp.pc = "up_update"
  /\ ReprocessHandlerUpdate(updateByStripeId(ev.id, updatedUpdate(ev, rp.ex)),
                            HitsByStripeId(ev.id), outcome)
  /\ UNCHANGED <<ledger, prov, emitted, dl, sy, runs, ua, call, co>>

\* handleSubscriptionDeleted throws after its update here as in a delivery
ReprocessDeletedUpdate(outcome, now) ==
  LET ev == emitted[rp.ev] IN
  /\ rp.pc = "del_update"
  /\ outcome # "ok"
  /\ ReprocessHandlerUpdate(updateByStripeId(ev.id, deletedUpdate(now)),
                            HitsByStripeId(ev.id), outcome)
  /\ UNCHANGED <<ledger, prov, emitted, dl, sy, runs, ua, call, co>>

ReprocessPaymentSucceededUpdate(outcome) ==
  LET ev == emitted[rp.ev] IN
  /\ rp.pc = "ps_update"
  /\ outcome # "notify_error"
  /\ ReprocessHandlerUpdate(updateByStripeId(ev.id, invoiceUpdate("ACTIVE")),
                            HitsByStripeId(ev.id), outcome)
  /\ UNCHANGED <<ledger, prov, emitted, dl, sy, runs, ua, call, co>>

ReprocessPaymentFailedUpdate(outcome) ==
  LET ev == emitted[rp.ev] IN
  /\ rp.pc = "pf_update"
  /\ outcome # "notify_error"
  /\ ReprocessHandlerUpdate(updateByStripeId(ev.id, invoiceUpdate("PAST_DUE")),
                            HitsByStripeId(ev.id), outcome)
  /\ UNCHANGED <<ledger, prov, emitted, dl, sy, runs, ua, call, co>>

\* await WebhookEventModel.markAsProcessed(stripeEventId); res.json({success: true, ...})
ReprocessMark ==
  /\ rp.pc = "mark"
  /\ ledger' = markAsProcessed(rp.ev)
  /\ ReprocessRespond(Reprocessed)
  /\ UNCHANGED <<subs, prov, emitted, dl, sy, runs, applied, ua, call, co>>

Reprocess ==
  \/ \E e \in 1..ReprocessEvents + 1 : ReprocessCall(e)
  \/ ReprocessFind
  \/ ReprocessCreatedFind
  \/ ReprocessCreatedLink
  \/ \E o \in Outcomes : ReprocessCreatedUpdate(o)
  \/ ReprocessUpdatedFind
  \/ \E o \in Outcomes : ReprocessUpdatedUpdate(o)
  \/ \E o \in Outcomes, now \in Times : ReprocessDeletedUpdate(o, now)
  \/ \E o \in Outcomes : ReprocessPaymentSucceededUpdate(o)
  \/ \E o \in Outcomes : ReprocessPaymentFailedUpdate(o)
  \/ ReprocessMark

\* ------------------------------------------------------------- checkout
\* POST /create-checkout-session: getOrCreateCustomer creates the provider's
\* customer cus_1 and the row of a user who has none
StartCheckout(u) ==
  /\ ~subs[u].present
  /\ subs' = [subs EXCEPT ![u] = getOrCreateCustomer("cus_1")]
  /\ UNCHANGED <<ledger, prov, emitted, dl, sy, runs, applied, ua, call, rp, co>>

CompletionGoto(pc) == co' = [co EXCEPT !.pc = pc]

CompletionRespond(resp) == co' = [co EXCEPT !.pc = "done", !.resp = resp]

\* a body that also writes the FREE plan (faulty variant of completionUpdate,
\* against which the race with subscription.created is tried)
completionUpdate_WritesPlan(subscriptionId) ==
  [NoUpdate EXCEPT
     !.stripe_subscription_id = subscriptionId,
     !.status = "ACTIVE",
     !.plan_name = "FREE",
     !.credits_total = getPlanCredits("FREE")]

\* GET /checkout-completion: the body of the update of the user's row
completionUpdate(subscriptionId) ==
  [NoUpdate EXCEPT
     !.stripe_subscription_id = subscriptionId,
     !.status = "ACTIVE"]

\* the checkout session as the provider returns it; the session is named by
\* the subscription its payment creates
retrieveSession(sessionId) ==
  IF prov[sessionId].exists
  THEN [paid |-> TRUE, subscription |-> sessionId, customer |-> prov[sessionId].customer]
  ELSE NoSession

\* user u's browser comes back from the checkout page with session sessionId
CompletionCall(u, sessionId) ==
  /\ co.pc \in {"idle", "done"}
  /\ co' = [NoCompletion EXCEPT !.pc = "retrieve", !.user_id = u, !.sessionId = sessionId]
  /\ UNCHANGED <<subs, ledger, prov, emitted, dl, sy, runs, applied, ua, call, rp>>

\* await stripe.checkout.sessions.retrieve: the provider answers with the
\* session (200) or with an error whose statusCode the endpoint passes on
CompletionRetrieve(code) ==
  LET session == retrieveSession(co.sessionId) IN
  /\ co.pc = "retrieve"
  /\ IF code # 200
     THEN CompletionRespond(CompletionResponse(code, FALSE))
     ELSE IF session.paid /\ session.subscription # Null
          THEN co' = [co EXCEPT !.pc = "find", !.session = session]
          ELSE co' = [co EXCEPT !.pc = "done", !.session = session,
                                !.resp = CompletionResponse(200, TRUE)]
  /\ UNCHANGED <<subs, ledger, prov, emitted, dl, sy, runs, applied, ua, call, rp>>

\* await SubscriptionModel.findByUserId(userId), and the two tests on its result
CompletionFind(ok) ==
  LET u == co.user_id
      subscription == IF subs[u].present
                      THEN [found |-> TRUE,
                            stripe_subscription_id |-> subs[u].stripe_subscription_id]
                      ELSE NoSubscription
  IN /\ co.pc = "find"
     /\ IF ~ok
        THEN CompletionRespond(CompletionResponse(500, FALSE))
        ELSE IF subscription.found /\ subscription.stripe_subscription_id = Null
             THEN co' = [co EXCEPT !.pc = "update", !.subscription = subscription]
             ELSE IF ~subscription.found /\ co.session.customer # Null
                  THEN co' = [co EXCEPT !.pc = "create", !.subscription = subscription]
                  ELSE co' = [co EXCEPT !.pc = "done", !.subscription = subscription,
                                        !.resp = CompletionResponse(200, TRUE)]
     /\ UNCHANGED <<subs, ledger, prov, emitted, dl, sy, runs, applied, ua, call, rp>>

\* await SubscriptionModel.update(userId, {stripe_subscription_id, status})
CompletionUpdate(ok) ==
  LET t == update(co.user_id, completionUpdate(co.session.subscription)) IN
  /\ co.pc = "update"
  /\ IF ~ok \/ ~UniqueColumns(t)
     THEN /\ CompletionRespond(CompletionResponse(500, FALSE))
          /\ UNCHANGED subs
     ELSE /\ subs' = t
          /\ CompletionRespond(CompletionResponse(200, TRUE))
  /\ UNCHANGED <<ledger, prov, emitted, dl, sy, runs, applied, ua, call, rp>>

\* await SubscriptionModel.create({user_id, stripe_customer_id,
\* stripe_subscription_id, status}): 23505 (a row of the user, or of the
\* customer, is there by now) gives 409
CompletionCreate(ok) ==
  LET u == co.user_id
      t == [subs EXCEPT ![u] = NewRow(co.session.customer, co.session.subscription, "ACTIVE")]
  IN /\ co.pc = "create"
     /\ IF ~ok
        THEN /\ CompletionRespond(CompletionResponse(500, FALSE))
             /\ UNCHANGED subs
        ELSE IF subs[u].present \/ ~UniqueColumns(t)
             THEN /\ CompletionRespond(CompletionResponse(409, FALSE))
                  /\ UNCHANGED subs
             ELSE /\ subs' = t
                  /\ CompletionRespond(CompletionResponse(200, TRUE))
     /\ UNCHANGED <<ledger, prov, emitted, dl, sy, runs, applied, ua, call, rp>>

Completion ==
  \/ \E u \in Users, sessionId \in SubIds : CompletionCall(u, sessionId)
  \/ \E code \in {200, 404, 500} : CompletionRetrieve(code)
  \/ \E ok \in BOOLEAN : CompletionFind(ok)
  \/ \E ok \in BOOLEAN : CompletionUpdate(ok)
  \/ \E ok \in BOOLEAN : CompletionCreate(ok)

\* nobody has started a checkout yet
InitCheckout ==
  /\ subs = [u \in Users |-> NoRow]
  /\ ledger = EmptyBag
  /\ prov = [s \in SubIds |-> NoProvSub]
  /\ emitted = << >>
  /\ dl = [d \in Deliveries |-> Idle]
  /\ sy = NoSync
  /\ ua = NoUa
  /\ call = NoCall
  /\ rp = NoReprocess
  /\ co = NoCompletion
  /\ runs = [e \in EventIds |-> 0]
  /\ applied = [e \in EventIds |-> 0]

\* one webhook request at a time
Next ==
  \/ Len(emitted) < MaxEvents /\ Provider
  \/ Webhook(1)
  \/ \E u \in Users : Meter(u)

Spec == Init /\ [][Next]_vars

\* NDeliveries webhook requests in flight, over the first RaceEvents events
NextRace ==
  \/ Len(emitted) < RaceEvents /\ Provider
  \/ \E d \in Deliveries : Webhook(d)
  \/ \E u \in Users : Meter(u)

SpecRace == Init /\ [][NextRace]_vars

\* the sync against a provider whose events have not been delivered
NextSync ==
  \/ Len(emitted) < SyncEvents /\ Provider
  \/ Sync
  \/ \E u \in Users : Meter(u)

SpecSync == Init /\ [][NextSync]_vars

\* one webhook request and one reprocess request, over the first
\* ReprocessEvents events
NextReprocess ==
  \/ Len(emitted) < ReprocessEvents /\ Provider
  \/ Webhook(1)
  \/ Reprocess

SpecReprocess == Init /\ [][NextReprocess]_vars

\* the webhook handlers and the sync on rows with consumed credits
NextCredits ==
  \/ Len(emitted) < CreditEvents /\ Provider
  \/ Webhook(1)
  \/ Sync

SpecCredits == InitCredits /\ [][NextCredits]_vars

\* a checkout: the row it starts with, the subscription its payment creates at
\* the provider, the completion request and the deliveries of subscription.created
NextCheckout ==
  \/ \E u \in Users : StartCheckout(u)
  \/ Len(emitted) < CheckoutEvents
       /\ \E s \in SubIds, c \in Customers, p \in Prices, st \in {"active", "trialing"} :
            ProvCreate(s, c, p, st, 1)
  \/ Completion
  \/ \E e \in EventIds, sigok \in BOOLEAN : Receive(1, e, sigok)
  \/ CheckExists(1)
  \/ CreateLedgerEntry(1)
  \/ CreatedFind(1)
  \/ CreatedLink(1)
  \/ \E o \in Outcomes : CreatedUpdate(1, o)
  \/ MarkProcessed(1)

SpecCheckout == InitCheckout /\ [][NextCheckout]_vars

\* user actions, and the deliveries of the events they make the provider emit
NextUser ==
  \/ Len(emitted) < MaxEvents /\ \E op \in UserOps, u \in Users, p \in Prices \cup {Null} :
                                    UserCall(op, u, p)
  \/ UserStep
  \/ \E e \in EventIds, sigok \in BOOLEAN : Receive(1, e, sigok)
  \/ CheckExists(1)
  \/ CreateLedgerEntry(1)
  \/ UpdatedFind(1)
  \/ \E o \in Outcomes : UpdatedUpdate(1, o)
  \/ \E o \in Outcomes, now \in Times : DeletedUpdate(1, o, now)
  \/ MarkProcessed(1)

SpecUser == InitUser /\ [][NextUser]_vars


\* ------------------------------------------------------------ properties
\* ledger rows with event id e
Entries(e) == {r \in BagToSet(ledger) : r.stripe_event_id = e}

EntryCount(e) ==
  CopiesIn(LedgerRow(e, emitted[e].type), ledger)
  + CopiesIn([LedgerRow(e, emitted[e].type) EXCEPT !.processed = TRUE], ledger)

HasEntry(e) == Entries(e) # {}

IsProcessed(e) == \E r \in Entries(e) : r.processed

Emitted == 1..Len(emitted)

\* the step by which request d is answered
Answered(d) == dl[d].pc # "done" /\ dl'[d].pc = "done"

\* C1: idempotence of sequential redelivery. For every event id the type
\* handler is invoked at most once, its update is applied at most once and the
\* ledger holds at most one entry; a delivery that finds the entry of its event
\* id is answered 200 "already processed" and leaves the subscriptions table,
\* the ledger and the handler counts as they were.
C1_AtMostOnce ==
  \A e \in Emitted : runs[e] <= 1 /\ applied[e] <= 1 /\ EntryCount(e) <= 1

C1_SecondDeliverySkipped ==
  \A d \in Deliveries :
    (dl[d].pc = "exists" /\ HasEntry(dl[d].ev) /\ dl'[d] # dl[d]) =>
      /\ dl'[d].pc = "done"
      /\ dl'[d].resp = AlreadyProcessed
      /\ EntryCount(dl[d].ev) = 1
      /\ UNCHANGED <<subs, ledger, runs, applied>>

C1_Idempotence == [](C1_AtMostOnce) /\ [][C1_SecondDeliverySkipped]_vars

\* C1 witness: a second delivery of an event whose handler applied its update
\* has been answered "already processed"
C1_Witness ==
  \E d \in Deliveries :
    /\ dl[d].pc = "done"
    /\ dl[d].resp = AlreadyProcessed
    /\ dl[d].ev \in Emitted
    /\ applied[dl[d].ev] = 1
    /\ runs[dl[d].ev] = 1
    /\ IsProcessed(dl[d].ev)

\* C2: a delivery of an event of a handled type is answered "already processed"
\* only if the event's ledger entry is processed: an event whose handler threw
\* (entry left unprocessed) is handled again on redelivery, never skipped.
C2_FailedEventNotSkipped ==
  \A d \in Deliveries :
    (/\ dl[d].pc = "done"
     /\ dl[d].resp = AlreadyProcessed
     /\ dl[d].ev \in Emitted
     /\ emitted[dl[d].ev].type \in HandledTypes)
    => IsProcessed(dl[d].ev)

\* C3: with webhook requests racing on one event id, the type handler is
\* invoked for it at most once and the ledger holds at most one entry for it,
\* exactly one as soon as a request is past the ledger insert.
PastInsert(d) ==
  dl[d].pc \in {"cr_find", "cr_link", "cr_update", "up_find", "up_update", "del_update",
                "ps_update", "pf_update", "mark"}

C3_AtMostOneHandler ==
  /\ \A e \in Emitted : runs[e] <= 1 /\ EntryCount(e) <= 1
  /\ \A d \in Deliveries : PastInsert(d) => EntryCount(dl[d].ev) = 1
  /\ \A d1, d2 \in Deliveries :
       (d1 # d2 /\ PastInsert(d1) /\ PastInsert(d2)) => dl[d1].ev # dl[d2].ev

\* C3 witness: two requests for the same event both passed the existence check;
\* one inserted the entry and runs the handler, the other's insert was refused
C3_Witness ==
  \E d1, d2 \in Deliveries :
    /\ d1 # d2
    /\ dl[d1].ev = dl[d2].ev
    /\ PastInsert(d1)
    /\ dl[d2].pc = "done"
    /\ dl[d2].resp = HandlerFailed
    /\ runs[dl[d1].ev] = 1

\* C4: a request whose ledger insert is refused by the unique event-id
\* constraint is answered 200 with received = true.
C4_DuplicateInsertAnswered200 ==
  [][\A d \in Deliveries :
       (dl[d].pc = "create" /\ HasEntry(dl[d].ev) /\ Answered(d)) =>
         (dl'[d].resp.code = 200 /\ dl'[d].resp.received)]_vars


\* the row linked to subscription id sid, Null if none
LinkedTo(sid) == Single(RowsWhere(subs, "stripe_subscription_id", sid))

SubscriptionTypes ==
  {"customer.subscription.created", "customer.subscription.updated",
   "customer.subscription.deleted"}

\* every emitted event is about provider subscription sid, has been handled
\* (its ledger entry is processed) and no request is in flight
AllHandled(sid) ==
  /\ Len(emitted) > 0
  /\ \A e \in Emitted :
       /\ emitted[e].type \in SubscriptionTypes
       /\ emitted[e].id = sid
       /\ IsProcessed(e)
  /\ \A d \in Deliveries : dl[d].pc \in {"idle", "done"}

\* status and plan derived from the provider's state of a subscription
DerivedStatus(ps) == statusMap(ps.status)

DerivedPlan(ps) == IF ps.status = "canceled" THEN "FREE" ELSE getPlanFromPriceId(ps.price)

\* C5: order independence. Once all the events of one provider subscription
\* (created, updated, deleted, each with its own event id) have been handled,
\* in whatever order they were delivered, the row of the subscription's
\* customer has the status and the plan derived from the provider's final state.
C5_ConvergesToProviderState ==
  \A sid \in SubIds : \A u \in Users :
    (/\ AllHandled(sid)
     /\ prov[sid].exists
     /\ subs[u].present
     /\ subs[u].stripe_customer_id = prov[sid].customer)
    => /\ subs[u].status = DerivedStatus(prov[sid])
       /\ subs[u].plan_name = DerivedPlan(prov[sid])

\* a step in which the handler of request d gets its update applied
UpdateApplied(d, pc) ==
  /\ dl[d].pc = pc
  /\ dl'[d].pc = "mark" \/ (dl'[d].pc = "done" /\ applied' # applied)

\* C6: renewal reset law. When subscription.updated for S is handled on the row
\* linked to S with stored period start T0, plan P and creditsUsed u: with
\* period start T0 and plan P the update leaves creditsUsed = u; with a later
\* period start, or a plan other than P, it sets creditsUsed = 0 and
\* creditsTotal = policy(new plan).
C6_RenewalResetStep ==
  \A d \in Deliveries : \A u \in Users :
    LET ev == emitted[dl[d].ev]
        T0 == subs[u].current_period_start
        P == subs[u].plan_name
        newPlan == getPlanFromPriceId(ev.price)
    IN (/\ UpdateApplied(d, "up_update")
        /\ subs[u].present
        /\ subs[u].stripe_subscription_id = ev.id
        /\ T0 # NullN)
       => /\ (ev.current_period_start * 1000 = T0 /\ newPlan = P)
               => subs'[u].credits_used = subs[u].credits_used
          /\ (ev.current_period_start * 1000 > T0 \/ newPlan # P)
               => /\ subs'[u].credits_used = 0
                  /\ subs'[u].credits_total = getPlanCredits(newPlan)

C6_RenewalResetLaw == [][C6_RenewalResetStep]_vars

\* C6 witness: a subscription.updated with the stored period start and plan has
\* been applied to a row whose creditsUsed is above 0
C6_Witness ==
  \E d \in Deliveries : \E u \in Users :
    /\ dl[d].pc = "mark"
    /\ emitted[dl[d].ev].type = "customer.subscription.updated"
    /\ applied[dl[d].ev] = 1
    /\ subs[u].present
    /\ subs[u].stripe_subscription_id = emitted[dl[d].ev].id
    /\ subs[u].current_period_start = emitted[dl[d].ev].current_period_start * 1000
    /\ subs[u].plan_name = getPlanFromPriceId(emitted[dl[d].ev].price)
    /\ subs[u].credits_used > 0

\* C7: after the update of a successfully handled subscription.created the
\* resolved row has status ACTIVE, the event's subscription id, the plan of the
\* event's price, that price, the event's period, creditsTotal = policy(plan),
\* creditsUsed = 0 and creditsResetAt = period end, whatever it held before.
C7_CreatedStep ==
  \A d \in Deliveries :
    LET ev == emitted[dl[d].ev]
        u == dl[d].ex.user_id
        plan == getPlanFromPriceId(ev.price)
    IN (dl[d].pc = "cr_update" /\ dl'[d].pc = "mark" /\ subs[u].present)
       => /\ subs'[u].status = "ACTIVE"
          /\ subs'[u].stripe_subscription_id = ev.id
          /\ subs'[u].plan_name = plan
          /\ subs'[u].price_id = ev.price
          /\ subs'[u].current_period_start = ev.current_period_start * 1000
          /\ subs'[u].current_period_end = (ev.current_period_start + PeriodLen) * 1000
          /\ subs'[u].credits_total = getPlanCredits(plan)
          /\ subs'[u].credits_used = 0
          /\ subs'[u].credits_reset_at = subs'[u].current_period_end
          /\ subs'[u].stripe_customer_id = subs[u].stripe_customer_id

C7_CreatedSetsRecord == [][C7_CreatedStep]_vars

\* C7 witness: subscription.created for price_pro_monthly has been applied to a
\* row that held another subscription before: PRO, 2000 credits, none used
C7_Witness ==
  \E d \in Deliveries : \E u \in Users :
    /\ dl[d].pc = "mark"
    /\ emitted[dl[d].ev].type = "customer.subscription.created"
    /\ emitted[dl[d].ev].price = PRICE_PRO_MONTHLY
    /\ emitted[dl[d].ev].id = "sub_2"
    /\ applied[dl[d].ev] = 1
    /\ subs[u].present
    /\ subs[u].stripe_subscription_id = "sub_2"
    /\ subs[u].status = "ACTIVE"
    /\ subs[u].plan_name = "PRO"
    /\ subs[u].credits_total = 2000
    /\ subs[u].credits_used = 0

\* C8: cancellation downgrade. After the update of subscription.deleted for S
\* the row that was linked to S has status CANCELED, plan FREE, no price id, no
\* subscription id, creditsTotal 10, creditsUsed 0 and creditsResetAt null.
C8_DeletedStep ==
  \A d \in Deliveries : \A u \in Users :
    (/\ UpdateApplied(d, "del_update")
     /\ subs[u].present
     /\ subs[u].stripe_subscription_id = emitted[dl[d].ev].id)
    => /\ subs'[u].status = "CANCELED"
       /\ subs'[u].plan_name = "FREE"
       /\ subs'[u].price_id = Null
       /\ subs'[u].stripe_subscription_id = Null
       /\ subs'[u].credits_total = 10
       /\ subs'[u].credits_used = 0
       /\ subs'[u].credits_reset_at = NullN

C8_CancellationDowngrade == [][C8_DeletedStep]_vars


\* customer c is linked to no row and its provider-reported e-mail is no user's
Unresolvable(c) ==
  /\ RowsWhere(subs, "stripe_customer_id", c) = {}
  /\ ~\E u \in Users : UserEmail[u] = CustomerEmail[c]

\* request d is inside handleSubscriptionCreated for an unresolvable customer
C9_Handling(d) ==
  /\ dl[d].pc \in {"cr_find", "cr_link"}
  /\ Unresolvable(emitted[dl[d].ev].customer)

\* the ledger entry of event e is there and unprocessed, no update of it applied
C9_LeftUnprocessed(e) == HasEntry(e) /\ ~IsProcessed(e) /\ applied[e] = 0

C9_HandlingStep ==
  \A d \in Deliveries :
    (C9_Handling(d) /\ dl'[d] # dl[d])
    => /\ subs' = subs
       /\ ledger' = ledger
       /\ applied' = applied
       /\ \/ dl[d].pc = "cr_find" /\ dl'[d].pc = "cr_link"
          \/ dl[d].pc = "cr_link" /\ dl'[d].pc = "done" /\ dl'[d].resp.code = 500

C9_EntryStays ==
  \A e \in Emitted :
    (/\ emitted[e].type = "customer.subscription.created"
     /\ Unresolvable(emitted[e].customer)
     /\ HasEntry(e))
    => C9_LeftUnprocessed(e)

\* C9: unresolvable linkage. subscription.created for a customer that no row is
\* linked to and whose e-mail resolves to no user fails: the handler throws, the
\* endpoint answers 500, no row is created or modified and the event's ledger
\* entry stays unprocessed.
C9_UnresolvableLinkageFails == [](C9_EntryStays) /\ [][C9_HandlingStep]_vars

\* C9 witness: such an event has been answered 500 and its entry is unprocessed
C9_Witness ==
  \E d \in Deliveries :
    /\ dl[d].pc = "done"
    /\ dl[d].resp = HandlerFailed
    /\ dl[d].ev \in Emitted
    /\ emitted[dl[d].ev].type = "customer.subscription.created"
    /\ Unresolvable(emitted[dl[d].ev].customer)
    /\ runs[dl[d].ev] = 1
    /\ C9_LeftUnprocessed(dl[d].ev)

\* the live subscriptions among those the provider listed
LiveListed(list) == {i \in 1..Len(list) : IsLive(list[i])}

\* C10: linkage repair. A sync of a row without a subscription id, for which
\* the provider listed exactly one subscription that is active, past_due or
\* trialing, leaves the row with that subscription's id, the mapped status, the
\* plan and the price id of its price, its period start and end and
\* creditsTotal = policy(plan).
C10_SyncStep ==
  \A u \in Users :
    (/\ sy.pc = "update"
     /\ sy.user_id = u
     /\ subs[u].present
     /\ subs[u].stripe_subscription_id = Null
     /\ Cardinality(LiveListed(sy.list)) = 1
     /\ sy'.pc = "idle"
     /\ subs' # subs)
    => LET L == sy.list[CHOOSE i \in LiveListed(sy.list) : TRUE]
           plan == getPlanFromPriceId(L.price)
       IN /\ subs'[u].stripe_subscription_id = L.id
          /\ subs'[u].status = (IF L.status = "past_due" THEN "PAST_DUE" ELSE "ACTIVE")
          /\ subs'[u].plan_name = plan
          /\ subs'[u].price_id = L.price
          /\ subs'[u].current_period_start = L.current_period_start * 1000
          /\ subs'[u].current_period_end = (L.current_period_start + PeriodLen) * 1000
          /\ subs'[u].credits_total = getPlanCredits(plan)

C10_SyncRepairsLinkage == [][C10_SyncStep]_vars

\* C10 witness: a row that had no subscription id (its creditsResetAt was never
\* set) carries, after a sync, the past_due STARTUP subscription of its customer
C10_Witness ==
  \E u \in Users :
    /\ sy.pc = "idle"
    /\ subs[u].present
    /\ subs[u].credits_reset_at = NullN
    /\ subs[u].stripe_subscription_id = "sub_1"
    /\ subs[u].status = "PAST_DUE"
    /\ subs[u].plan_name = "STARTUP"
    /\ subs[u].price_id = PRICE_STARTUP_MONTHLY
    /\ subs[u].credits_total = 500
    /\ subs[u].current_period_start = 2000


\* the reasons for which a user action is rejected on a failed precondition
PreconditionFailures ==
  {"no_record", "no_subscription_id", "no_active_subscription", "resource_missing",
   "canceled", "bad_status", "already_active", "not_scheduled"}

\* the call in flight has ended rejected on a failed precondition
RejectedOnPrecondition == ua.pc = "done" /\ ua.reason \in PreconditionFailures

\* C11: a user action (switch plan, cancel, cancel immediately, reactivate)
\* rejected on a failed precondition has not written the caller's row and has
\* issued no update to the provider.
C11_RejectedActionChangesNothing ==
  RejectedOnPrecondition => ~ua.mutated /\ ~ua.called


\* the caller's row is there without a subscription id
LacksSubscriptionId(u) == subs[u].present /\ subs[u].stripe_subscription_id = Null

C12_SyncFirstStep ==
  LET u == ua.user_id IN
  /\ (ua.pc = "find" /\ ua' # ua /\ LacksSubscriptionId(u))
       => ua'.pc = "sync_list"
  /\ (ua.pc = "refetch" /\ ua' # ua)
       => IF LacksSubscriptionId(u)
          THEN ua'.pc = "done" /\ ua'.result = 404 /\ ua'.reason = "no_active_subscription"
          ELSE ua'.pc = "retrieve" /\ ua'.sub_id = subs[u].stripe_subscription_id

\* C12: every user action that needs a subscription id (switch plan, cancel,
\* cancel immediately, reactivate), called on a row without one, first runs the
\* sync; it goes on when the row has an id after the sync and is rejected with
\* the 'no active subscription' error otherwise.
C12_SyncBeforeRejecting == [][C12_SyncFirstStep]_vars


\* the step in which switchPlan's local update is written to the caller's row
SwitchWritten == ua.pc = "switch_update" /\ ua'.pc = "done" /\ subs' # subs

C13_SwitchStep ==
  LET u == ua.user_id
      A == subs[u].plan_name
      B == getPlanFromPriceId(ua.price)
  IN SwitchWritten
     => /\ subs'[u].plan_name = B
        /\ subs'[u].price_id = ua.price
        /\ subs'[u].current_period_start = ua.returned * 1000
        /\ subs'[u].current_period_end = (ua.returned + PeriodLen) * 1000
        /\ subs'[u].credits_total = getPlanCredits(B)
        /\ (B # A) => subs'[u].credits_used = 0
        /\ (B = A) => subs'[u].credits_used = subs[u].credits_used

\* the switch has succeeded and request d, which read the row after the switch
\* wrote it, applies the subscription.updated the provider emitted for the switch
C13_LaterUpdated(d, u) ==
  /\ ua.pc = "done" /\ ua.op = "switchPlan" /\ ua.result = 200 /\ ua.user_id = u
  /\ UpdateApplied(d, "up_update")
  /\ dl[d].ex = ReadRow(u)
  /\ emitted[dl[d].ev].id = ua.sub_id
  /\ emitted[dl[d].ev].price = ua.price
  /\ subs[u].present
  /\ subs[u].stripe_subscription_id = ua.sub_id
  /\ subs[u].plan_name = getPlanFromPriceId(emitted[dl[d].ev].price)
  /\ subs[u].current_period_start = emitted[dl[d].ev].current_period_start * 1000

C13_UpdatedStep ==
  \A d \in Deliveries : \A u \in Users :
    C13_LaterUpdated(d, u)
    => /\ subs'[u].plan_name = subs[u].plan_name
       /\ subs'[u].credits_total = subs[u].credits_total
       /\ subs'[u].credits_used = subs[u].credits_used

\* C13: the local update of a successful switch from plan A to a price of plan
\* B gives the row plan B, the new price id, the period the provider returned
\* and creditsTotal = policy(B), and sets creditsUsed to 0 exactly when B differs
\* from A; the subscription.updated handled later for the same change (same
\* plan, same period start) leaves plan, creditsTotal and creditsUsed as they are.
C13_SwitchPlanLaw == [][C13_SwitchStep /\ C13_UpdatedStep]_vars

\* C13 witness: a switch from PRO to the STARTUP price has been written, and the
\* subscription.updated of the switch has been applied to the row: STARTUP, 500, 0
C13_Witness ==
  \E d \in Deliveries : \E u \in Users :
    /\ ua.pc = "done" /\ ua.op = "switchPlan" /\ ua.result = 200 /\ ua.mutated
    /\ ua.user_id = u
    /\ ua.price = PRICE_STARTUP_MONTHLY
    /\ dl[d].pc = "mark"
    /\ emitted[dl[d].ev].type = "customer.subscription.updated"
    /\ emitted[dl[d].ev].price = PRICE_STARTUP_MONTHLY
    /\ applied[dl[d].ev] = 1
    /\ dl[d].ex = ReadRow(u)
    /\ subs[u].plan_name = "STARTUP"
    /\ subs[u].price_id = PRICE_STARTUP_MONTHLY
    /\ subs[u].credits_total = 500
    /\ subs[u].credits_used = 0


\* a step of cancelSubscription called on a row that had its subscription id
GracefulCancelStep ==
  /\ ua.op = "cancelSubscription"
  /\ ua.pc \notin {"idle", "done"}
  /\ ~ua.synced
  /\ ua' # ua

C14_CancelStep ==
  GracefulCancelStep
  => /\ subs' = subs
     /\ ua'.result = 200
          => /\ prov'[ua.sub_id].cancel_at_period_end
             /\ prov'[ua.sub_id].status = prov[ua.sub_id].status
             /\ prov'[ua.sub_id].price = prov[ua.sub_id].price

\* the subscription.updated of a still active subscription keeps an ACTIVE row ACTIVE
C14_StaysActiveStep ==
  \A d \in Deliveries : \A u \in Users :
    (/\ UpdateApplied(d, "up_update")
     /\ emitted[dl[d].ev].status = "active"
     /\ subs[u].present
     /\ subs[u].stripe_subscription_id = emitted[dl[d].ev].id
     /\ subs[u].status = "ACTIVE")
    => subs'[u].status = "ACTIVE"

CancelNowStep ==
  ua.op = "cancelSubscriptionImmediately" /\ ua.pc \notin {"idle", "done"} /\ ua' # ua

\* the row after the mutation of subscription.deleted, as the claim lists it
C15_Downgraded(row, before) ==
  /\ row.status = "CANCELED"
  /\ row.plan_name = "FREE"
  /\ row.current_period_end \in {now * 1000 : now \in Times}
  /\ row.credits_total = 10
  /\ row.credits_used = 0
  /\ row.credits_reset_at = NullN
  /\ row.stripe_customer_id = before.stripe_customer_id
  /\ row.current_period_start = before.current_period_start

C15_OrderStep ==
  LET u == ua.user_id IN
  CancelNowStep
  => /\ subs' # subs => (ua.called /\ C15_Downgraded(subs'[u], subs[u]))
     /\ ua'.reason = "provider_error" => (subs' = subs /\ ~ua'.mutated)

C15_ClearedStep ==
  LET u == ua.user_id IN
  (CancelNowStep /\ subs' # subs)
  => /\ subs'[u].price_id = Null
     /\ subs'[u].stripe_subscription_id = Null

\* C15: cancel immediately writes to the caller's row the mutation of
\* subscription.deleted (CANCELED, FREE, price id and subscription id cleared,
\* period end = now, creditsTotal 10, creditsUsed 0, creditsResetAt null), and
\* only after the provider has canceled; when the provider call fails the row
\* is unchanged.
C15_CancelNowDowngrades == [][C15_OrderStep /\ C15_ClearedStep]_vars


\* the provider's subscription is scheduled for cancellation and neither
\* canceled nor active
Reactivable(ps) ==
  ps.exists /\ ps.cancel_at_period_end /\ ps.status # "canceled" /\ ps.status # "active"

\* a step of reactivateSubscription at or after the retrieval of the subscription
ReactivateStep ==
  /\ ua.op = "reactivateSubscription"
  /\ ua.pc \in {"retrieve", "prov_update"}
  /\ ua' # ua

C16_ReactivateStep ==
  LET ps == prov[ua.sub_id] IN
  ReactivateStep
  => /\ (ua'.pc = "prov_update" \/ ua'.result = 200 \/ prov' # prov) => Reactivable(ps)
     /\ ua'.result = 200 => (prov' # prov /\ ~prov'[ua.sub_id].cancel_at_period_end)
     /\ ~Reactivable(ps)
          => (ua'.pc = "done" /\ ua'.result \in {400, 404, 500} /\ prov' = prov)
     /\ (Reactivable(ps) /\ ua'.pc = "done")
          => (ua'.result = 200 \/ ua'.reason = "provider_error")

\* no call of reactivateSubscription that ended in an error has updated the provider
C16_NoUpdateWhenRejected ==
  (ua.op = "reactivateSubscription" /\ ua.pc = "done" /\ ua.result # 200) => ~ua.called

RecognizedTypes == HandledTypes \cup {"invoice.created"}

Unrecognized(e) == emitted[e].type \notin RecognizedTypes

C17_UnrecognizedStep ==
  \A d \in Deliveries :
    (dl[d].pc = "create" /\ Unrecognized(dl[d].ev) /\ dl'[d] # dl[d])
    => /\ subs' = subs
       /\ dl'[d].pc = "done"
       /\ dl'[d].resp = Response(200, TRUE, "false")
       /\ \E r \in BagToSet(ledger') : r.stripe_event_id = dl[d].ev /\ ~r.processed

C17_StaysUnprocessed ==
  \A e \in Emitted :
    Unrecognized(e) => (~IsProcessed(e) /\ runs[e] = 0 /\ applied[e] = 0)

\* C17: a delivery of an unrecognized event type (foo.bar) creates a ledger
\* entry that stays processed = false for good, runs no handler, changes no
\* subscription row and is answered 200 with processed false.
C17_UnrecognizedStored == [](C17_StaysUnprocessed) /\ [][C17_UnrecognizedStep]_vars

\* C17 witness: a foo.bar delivery has been answered 200 / processed false and
\* its ledger entry is there, unprocessed
C17_Witness ==
  \E d \in Deliveries :
    /\ dl[d].pc = "done"
    /\ dl[d].resp = Response(200, TRUE, "false")
    /\ emitted[dl[d].ev].type = "foo.bar"
    /\ HasEntry(dl[d].ev)
    /\ ~IsProcessed(dl[d].ev)


\* a 200 answer whose body carries received = true and a boolean processed
SuccessBody(r) == r.code = 200 /\ r.received /\ r.processed \in {"true", "false"}

C18_AnswerStep ==
  \A d \in Deliveries :
    (dl'[d] # dl[d] /\ dl'[d].pc = "done")
    => IF dl[d].pc \in {"idle", "done"}
       THEN \* rejected by the signature check
            dl'[d].resp.code \notin 200..299
       ELSE \* answered by the handler: the contract's success body, or the
            \* 500 of the catch block
            SuccessBody(dl'[d].resp) \/ dl'[d].resp = HandlerFailed

\* C18: response contract of the webhook endpoint. A delivery that passes the
\* signature check and whose handling throws nothing, the duplicate skip
\* included, is answered 200 with received = true and a boolean processed; a
\* failed signature check and a handler exception are answered non-2xx.
C18_ResponseContract == [][C18_AnswerStep]_vars

\* the contract without the duplicate skip
C18_ExceptDuplicateSkip ==
  [][\A d \in Deliveries :
       (dl'[d] # dl[d] /\ dl'[d].pc = "done" /\ dl'[d].resp # AlreadyProcessed)
       => IF dl[d].pc \in {"idle", "done"}
          THEN dl'[d].resp.code \notin 200..299
          ELSE SuccessBody(dl'[d].resp) \/ dl'[d].resp = HandlerFailed]_vars


InvoiceTypes == {"invoice.payment_succeeded", "invoice.payment_failed"}

InvoiceStatus(type) == IF type = "invoice.payment_succeeded" THEN "ACTIVE" ELSE "PAST_DUE"

\* the row linked to subscription sid has its status set and nothing else, and
\* every other row is as it was
OnlyStatusSet(sid, status) ==
  \A u \in Users :
    subs'[u] = IF subs[u].present /\ subs[u].stripe_subscription_id = sid
               THEN [subs[u] EXCEPT !.status = status]
               ELSE subs[u]

\* the handler of an invoice event returns normally: after its update, or at
\* once when it reads no subscription id from the invoice
InvoiceHandled(d) ==
  /\ dl[d].pc \in {"create", "ps_update", "pf_update"}
  /\ emitted[dl[d].ev].type \in InvoiceTypes
  /\ dl'[d].pc = "mark"

C19_InvoiceStep ==
  \A d \in Deliveries :
    InvoiceHandled(d)
    => OnlyStatusSet(emitted[dl[d].ev].id, InvoiceStatus(emitted[dl[d].ev].type))

\* C19: invoice.payment_succeeded sets the status of the row linked to the
\* invoice's subscription to ACTIVE, invoice.payment_failed sets it to PAST_DUE,
\* and neither changes planName, priceRef, the period, creditsTotal,
\* creditsUsed or creditsResetAt.
C19_InvoiceSetsStatusOnly == [][C19_InvoiceStep]_vars

\* the frame alone: whatever a step of an invoice delivery changes in the
\* table is the status of the linked row, set to the event's status
C19_FrameOnly ==
  [][\A d \in Deliveries :
       (dl[d].pc \in {"create", "ps_update", "pf_update"}
        /\ emitted[dl[d].ev].type \in InvoiceTypes /\ dl'[d] # dl[d])
       => \/ subs' = subs
          \/ OnlyStatusSet(emitted[dl[d].ev].id,
                           InvoiceStatus(emitted[dl[d].ev].type))]_vars


\* the allocation the plan policy gives a plan name, whatever its letter case
PolicyAllocation(text) ==
  IF text \in CaseVariants(<<"S", "T", "A", "R", "T", "U", "P">>)
     \/ text \in CaseVariants(<<"B", "A", "S", "I", "C">>) THEN 500
  ELSE IF text \in CaseVariants(<<"P", "R", "O">>) THEN 2000
  ELSE IF text \in CaseVariants(<<"E", "N", "T", "E", "R", "P", "R", "I", "S", "E">>) THEN NullN
  ELSE 10

\* C20: plan policy totality. For every plan-name input (any letter case, the
\* empty string, null, an unrecognized name) getPlanCredits returns an
\* allocation and throws nothing: 10 for FREE, for null and for every
\* unrecognized or empty name, 500 for STARTUP and BASIC, 2000 for PRO,
\* unlimited for ENTERPRISE, whatever the letter case.
C20_PolicyTotal ==
  call.pc = "done"
  => /\ ~call.threw
     /\ call.result = PolicyAllocation(call.planName.text)

\* the policy on strings alone
C20_TotalOnStrings ==
  (call.pc = "done" /\ ~call.planName.isNull)
  => /\ ~call.threw
     /\ call.result = PolicyAllocation(call.planName.text)


\* event e is the provider's latest event about subscription sid and carries
\* the state the provider holds for it
LatestOf(e, sid) ==
  /\ emitted[e].id = sid
  /\ \A e2 \in Emitted : e2 > e => emitted[e2].id # sid
  /\ prov[sid].exists
  /\ emitted[e].status = prov[sid].status
  /\ emitted[e].price = prov[sid].price
  /\ emitted[e].current_period_start = prov[sid].current_period_start

\* switchPlan has returned after its local update, and request d now applies
\* the latest subscription.updated of the switched subscription
C21_AfterMirrorWrite(d) ==
  /\ ua.pc = "done" /\ ua.op = "switchPlan" /\ ua.result = 200 /\ ua.mutated
  /\ UpdateApplied(d, "up_update")
  /\ LatestOf(dl[d].ev, ua.sub_id)

C21_WebhookStep ==
  \A d \in Deliveries : \A u \in Users :
    LET ev == emitted[dl[d].ev]
        planName == getPlanFromPriceId(ev.price)
    IN (C21_AfterMirrorWrite(d) /\ subs[u].present
        /\ subs[u].stripe_subscription_id = ev.id)
       => /\ subs'[u].status = statusMap(ev.status)
          /\ subs'[u].plan_name = planName
          /\ subs'[u].price_id = ev.price
          /\ subs'[u].current_period_start = ev.current_period_start * 1000
          /\ subs'[u].current_period_end = current_period_end(ev) * 1000
          /\ subs'[u].credits_total = getPlanCredits(planName)

\* C21: the webhook is authoritative over the local update of switchPlan. When
\* the two race, then once the provider's latest subscription.updated is
\* applied after switchPlan's local update, the row's status, plan, price id,
\* period and creditsTotal are those derived from the event, wherever the
\* handler's read fell.
C21_WebhookAuthoritative == [][C21_WebhookStep]_vars

\* C21 witness: the handler read the row before switchPlan wrote it (it read
\* another plan) and wrote after it (switchPlan had set ACTIVE, the row is now
\* PAST_DUE as in the event)
C21_Witness ==
  \E d \in Deliveries : \E u \in Users :
    /\ ua.pc = "done" /\ ua.op = "switchPlan" /\ ua.result = 200 /\ ua.mutated /\ ~ua.synced
    /\ ua.user_id = u
    /\ dl[d].pc = "mark"
    /\ emitted[dl[d].ev].type = "customer.subscription.updated"
    /\ LatestOf(dl[d].ev, ua.sub_id)
    /\ emitted[dl[d].ev].status = "past_due"
    /\ dl[d].ex.found
    /\ dl[d].ex.plan_name # subs[u].plan_name
    /\ subs[u].status = "PAST_DUE"
    /\ subs[u].price_id = ua.price


\* request d applies a subscription.updated to row u, which it read as it is now
C22_Applied(d, u) ==
  /\ UpdateApplied(d, "up_update")
  /\ subs[u].present
  /\ subs[u].stripe_subscription_id = emitted[dl[d].ev].id
  /\ subs[u].current_period_start # NullN
  /\ dl[d].ex = ReadRow(u)

C22_ResetStep ==
  \A d \in Deliveries : \A u \in Users :
    LET ev == emitted[dl[d].ev] IN
    C22_Applied(d, u)
    => \/ ev.current_period_start * 1000 > subs[u].current_period_start
       \/ getPlanFromPriceId(ev.price) # subs[u].plan_name
       \/ /\ subs'[u].credits_used = subs[u].credits_used
          /\ subs'[u].credits_reset_at = subs[u].credits_reset_at

\* C22: subscription.updated resets creditsUsed and creditsResetAt only when
\* the event's period start is later than the stored one or the plan differs
\* from the stored one (or there was no record); an event with the stored plan
\* and a period start equal to or earlier than the stored one (a stale,
\* reordered event) leaves creditsUsed and creditsResetAt as they are.
C22_ResetOnlyOnAdvance == [][C22_ResetStep]_vars

\* the same with "later" weakened to "other": what the handler's comparison of
\* the two period starts gives
C22_ResetOnlyOnChange ==
  [][\A d \in Deliveries : \A u \in Users :
       LET ev == emitted[dl[d].ev] IN
       C22_Applied(d, u)
       => \/ ev.current_period_start * 1000 # subs[u].current_period_start
          \/ getPlanFromPriceId(ev.price) # subs[u].plan_name
          \/ /\ subs'[u].credits_used = subs[u].credits_used
             /\ subs'[u].credits_reset_at = subs[u].credits_reset_at]_vars


\* subscription.deleted for subscription sid has been applied to a row
DeletedApplied(sid) ==
  \E e \in Emitted :
    /\ emitted[e].type = "customer.subscription.deleted"
    /\ emitted[e].id = sid
    /\ applied[e] >= 1

C23_LateEventStep ==
  \A d \in Deliveries : \A u \in Users :
    (/\ dl[d].pc \notin {"idle", "done"}
     /\ dl'[d] # dl[d]
     /\ emitted[dl[d].ev].id # Null
     /\ DeletedApplied(emitted[dl[d].ev].id)
     /\ subs[u].present
     /\ subs[u].stripe_customer_id = emitted[dl[d].ev].customer
     /\ subs[u].status = "CANCELED")
    => subs'[u].status = "CANCELED"

\* C23: CANCELED is terminal for a subscription. Once subscription.deleted for
\* S has set the row to CANCELED, no event about S that is handled later (a
\* late or reordered subscription.created, subscription.updated,
\* invoice.payment_succeeded or invoice.payment_failed) moves the row's status
\* away from CANCELED.
C23_CanceledIsTerminal == [][C23_LateEventStep]_vars



\* a webhook request or the reprocess request is handling event e
InFlight(e) ==
  \/ \E d \in Deliveries : dl[d].pc \notin {"idle", "done"} /\ dl[d].ev = e
  \/ rp.pc \notin {"idle", "done"} /\ rp.ev = e

\* the entry of e is unprocessed and nothing is handling e: e is eligible for
\* reprocess (or redelivery)
Eligible(e) == HasEntry(e) /\ ~IsProcessed(e) /\ ~InFlight(e)

\* C24: for every event id the handler's update of the subscriptions table is
\* applied at most once over all deliveries and reprocess calls: an entry that
\* is left unprocessed by a failed handling belongs to an event whose update
\* has not been applied (a failing handler fails before it writes).
C24_MutationAtMostOnce ==
  \A e \in Emitted :
    /\ applied[e] <= 1
    /\ Eligible(e) => applied[e] = 0


\* the entries of event id e after the step
EntriesAfter(e) == {r \in BagToSet(ledger') : r.stripe_event_id = e}

\* a request whose handler has returned without error marks event e
MarkedBy(e) ==
  \/ \E d \in Deliveries : dl[d].pc = "mark" /\ dl[d].ev = e /\ dl'[d].pc = "done"
  \/ rp.pc = "mark" /\ rp.ev = e /\ rp'.pc = "done"

C25_EntryStep ==
  \A e \in EventIds :
    /\ (Entries(e) = {} /\ EntriesAfter(e) # {})
         => \A r \in EntriesAfter(e) : ~r.processed
    /\ ((\E r \in EntriesAfter(e) : r.processed) /\ ~IsProcessed(e))
         => MarkedBy(e)
    /\ IsProcessed(e)
         => /\ EntriesAfter(e) = Entries(e)
            /\ \A r \in Entries(e) : CopiesIn(r, ledger') = CopiesIn(r, ledger)

\* no handler has run for an event that has no entry yet
C25_EntryFirst == \A e \in EventIds : Entries(e) = {} => runs[e] = 0

\* C25: lifecycle of a ledger entry. The entry of an event id is inserted with
\* processed = false before the type handler runs, is set to processed = true
\* only after the handler has returned without error, and once it is
\* processed = true no delivery and no reprocess call sets it back or changes it.
C25_EntryLifecycle == [](C25_EntryFirst) /\ [][C25_EntryStep]_vars

\* C25 witness: the entry of a handled event is processed, and the reprocess
\* call made for it afterwards was rejected
C25_Witness ==
  \E e \in Emitted :
    /\ IsProcessed(e)
    /\ runs[e] = 1
    /\ rp.pc = "done" /\ rp.ev = e /\ rp.resp = ReprocessFailed(400)


\* the reprocess request looks its event id up and finds one unprocessed entry
ReprocessAccepts ==
  /\ rp.pc = "find"
  /\ rp' # rp
  /\ Cardinality(Entries(rp.ev)) = 1
  /\ ~IsProcessed(rp.ev)

\* what the reprocess request does with the entry is what the delivery's
\* dispatch does with an event of that type
SameAsDelivery(next) ==
  CASE next = "throw" -> rp'.pc = "done" /\ ~rp'.resp.success
    [] next = "unhandled" ->
         /\ rp'.pc = "done"
         /\ rp'.resp.code = 200
         /\ rp'.resp.processed # "true"
         /\ subs' = subs /\ ledger' = ledger /\ runs' = runs
    [] OTHER -> rp'.pc = next

C28_ReprocessStep ==
  /\ ReprocessAccepts => SameAsDelivery(Dispatch(emitted[rp.ev]))
  /\ (rp.pc = "find" /\ rp' # rp /\ ~ReprocessAccepts)
       => /\ rp'.pc = "done"
          /\ ~rp'.resp.success
          /\ subs' = subs /\ ledger' = ledger /\ runs' = runs

\* C28: reprocess dispatches by type as the delivery does. For a stored entry
\* with processed = false it invokes the same handler and gives the same
\* processed outcome and the same error / no error result as the delivery's
\* dispatch for that type (an unrecognized type: no mutation, entry left
\* unprocessed, not an error); an entry that is processed, or an unknown event
\* id, is rejected and no handler runs.
C28_ReprocessAsDelivery == [][C28_ReprocessStep]_vars

\* the same for the event types that have a handler
C28_AsDeliveryOnHandledTypes ==
  [][/\ (ReprocessAccepts /\ emitted[rp.ev].type \in HandledTypes)
          => SameAsDelivery(Dispatch(emitted[rp.ev]))
     /\ (rp.pc = "find" /\ rp' # rp /\ ~ReprocessAccepts)
          => /\ rp'.pc = "done"
             /\ ~rp'.resp.success
             /\ subs' = subs /\ ledger' = ledger /\ runs' = runs]_vars


\* C26: every engine operation preserves creditsUsed <= creditsTotal for a
\* finite creditsTotal: an operation that lowers creditsTotal also resets
\* creditsUsed to 0.
C26_UsedWithinTotal ==
  \A u \in Users :
    (subs[u].present /\ subs[u].credits_total # NullN)
    => subs[u].credits_used <= subs[u].credits_total

\* C29: a subscription.updated, subscription.deleted, invoice.payment_succeeded
\* or invoice.payment_failed event whose subscription id matches no row leaves
\* the table as it is, and its handler returns normally all the same, so that the
\* endpoint goes on to mark the entry processed and answer 200.
UnmatchedTypes ==
  {"customer.subscription.updated", "customer.subscription.deleted",
   "invoice.payment_succeeded", "invoice.payment_failed"}

\* request d is at the update of a handler whose event matches no row
AtUnmatchedUpdate(d) ==
  /\ dl[d].pc \in {"up_update", "del_update", "ps_update", "pf_update"}
  /\ emitted[dl[d].ev].type \in UnmatchedTypes
  /\ ~HitsByStripeId(emitted[dl[d].ev].id)

\* the handler can return normally from there, the table untouched
C29_CanReportSuccess ==
  \A d \in Deliveries :
    AtUnmatchedUpdate(d) => ENABLED (Webhook(d) /\ dl'[d].pc = "mark" /\ subs' = subs)

\* whatever the handler does from there, no row is changed and none is created
C29_UnmatchedStep ==
  \A d \in Deliveries :
    (AtUnmatchedUpdate(d) /\ dl'[d].pc # dl[d].pc) => subs' = subs

C29_UnmatchedReportsSuccess == [](C29_CanReportSuccess) /\ [][C29_UnmatchedStep]_vars

\* the same with subscription.deleted left out, whose handler always throws
\* after its update
C29_ExceptDeleted ==
  /\ [](\A d \in Deliveries :
          (AtUnmatchedUpdate(d) /\ dl[d].pc # "del_update") =>
            ENABLED (Webhook(d) /\ dl'[d].pc = "mark" /\ subs' = subs))
  /\ [][C29_UnmatchedStep]_vars

\* an unmatched event of each kind has been handled
C29_UnmatchedHandled ==
  \E d \in Deliveries :
    /\ dl[d].pc = "done"
    /\ dl[d].ev \in 1..Len(emitted)
    /\ emitted[dl[d].ev].type = "customer.subscription.updated"
    /\ ~HitsByStripeId(emitted[dl[d].ev].id)
    /\ dl[d].resp = Response(200, TRUE, "true")
    /\ IsProcessed(dl[d].ev)

\* C30: when the checkout-completion request and the handling of the
\* subscription.created event of the same paid checkout have both finished, in
\* whatever order their reads and writes were interleaved, the user's row carries
\* the checkout's subscription id, status ACTIVE, and the plan, price, period and
\* credit columns subscription.created writes. The checkout is the only paid one:
\* its subscription is the only one the provider holds.
OnlyCheckout(e) == \A s \in SubIds : prov[s].exists => s = emitted[e].id

CompletionHandled(u, e) ==
  /\ co.pc = "done"
  /\ co.resp = CompletionResponse(200, TRUE)
  /\ co.user_id = u
  /\ co.session.paid
  /\ co.session.subscription = emitted[e].id

CreatedHandled(u, e) ==
  /\ emitted[e].type = "customer.subscription.created"
  /\ applied[e] >= 1
  /\ ~InFlight(e)
  /\ subs[u].present

WrittenByCreated(row, ev) ==
  LET w == createdUpdate(ev) IN
  /\ row.stripe_subscription_id = ev.id
  /\ row.status = "ACTIVE"
  /\ row.plan_name = w.plan_name
  /\ row.price_id = w.price_id
  /\ row.current_period_start = w.current_period_start
  /\ row.current_period_end = w.current_period_end
  /\ row.credits_total = w.credits_total
  /\ row.credits_used = w.credits_used
  /\ row.credits_reset_at = w.credits_reset_at

C30_CompletionAndCreatedCommute ==
  \A u \in Users, e \in 1..Len(emitted) :
    (OnlyCheckout(e) /\ CompletionHandled(u, e) /\ CreatedHandled(u, e)) =>
      WrittenByCreated(subs[u], emitted[e])

\* both have finished, and the completion request had read the row before any
\* subscription id was on it, so that it wrote as well
C30_Witness ==
  \E u \in Users, e \in 1..Len(emitted) :
    /\ OnlyCheckout(e)
    /\ CompletionHandled(u, e)
    /\ CreatedHandled(u, e)
    /\ co.subscription.found
    /\ co.subscription.stripe_subscription_id = Null
    /\ IsProcessed(e)
    /\ WrittenByCreated(subs[u], emitted[e])

\* C27: the credits_total of every row is the allocation of its plan_name, a
\* row without plan_name counting as FREE.
PlanOrFree(row) == IF row.plan_name = Null THEN "FREE" ELSE row.plan_name

C27_TotalMatchesPlan ==
  \A u \in Users :
    subs[u].present => subs[u].credits_total = getPlanCredits(PlanOrFree(subs[u]))

\* the same for the rows that carry a plan_name
C27_TotalMatchesNamedPlan ==
  \A u \in Users :
    (subs[u].present /\ subs[u].plan_name # Null) =>
      subs[u].credits_total = getPlanCredits(subs[u].plan_name)


====
